---- MODULE Spec2Model ----
(***************************************************************************)
(* A model of the Inochi2D TypeScript runtime: the puppet container        *)
(* loader (inp.ts), the document builder (deserializePuppet,               *)
(* deserializeNode), the node transform composition (Node.updateTransform) *)
(* and the mesh data (de)serialisation (MeshData).                         *)
(*                                                                         *)
(* JavaScript values that the code passes around untyped (`any`) are       *)
(* modelled as tagged records, so that `undefined`, a number, a string and *)
(* an array stay distinguishable exactly as `typeof` / `!== undefined` /   *)
(* Array.isArray distinguish them in the code.                             *)
(***************************************************************************)
EXTENDS Integers, Sequences, FiniteSets, TLC

VARIABLES
    pc,            \* position of the running operation
    scene,         \* the parsed JSON scene handed to deserializePuppet
    nodes,         \* the heap of Node objects, indexed by allocation order
    puppet,        \* the Puppet returned to the caller, or NoPuppet
    lastOp,        \* the last operation applied to the node tree or the mesh
    filebuffer,    \* the container bytes handed to inImport
    textureLoads,  \* inImport's array of decode promises
    settleOrder,   \* indices of the decode promises in the order they settled
    builderCalls,  \* number of deserializePuppet invocations made by inImport
    mesh,          \* a MeshData object
    data,          \* the object returned by MeshData.serialize
    restored,      \* the MeshData returned by MeshData.deserialize
    param,         \* a Param object
    node_offsets,  \* the Map<number, PartOffsets> handed to Param.apply
    transforms,    \* the Transform objects made so far: rot, scale, trans, trs
    matrices       \* the Matrix4 objects the `trs` fields refer to

vars == <<pc, scene, nodes, puppet, lastOp, filebuffer, textureLoads,
          settleOrder, builderCalls, mesh, data, restored,
          param, node_offsets, transforms, matrices>>

-----------------------------------------------------------------------------
(* Bounds of the model.                                                    *)

MaxNodes == 3

MaxTextures == 2

MaxVerts == 2

-----------------------------------------------------------------------------
(* JavaScript values.                                                      *)

Undefined == [k |-> "undefined"]

NullV == [k |-> "null"]

Num(n) == [k |-> "number", v |-> n]

Str(s) == [k |-> "string", v |-> s]

Bool(b) == [k |-> "boolean", v |-> b]

Arr(s) == [k |-> "array", v |-> s]

Obj(r) == [k |-> "object", v |-> r]

\* json.f : a property read. Reading a property of a primitive or a missing
\* property of an object yields undefined (reading one of null or undefined
\* throws, which the callers test with Throws first).
Get(j, f) ==
    IF j.k = "object" /\ f \in DOMAIN j.v THEN j.v[f] ELSE Undefined

\* A property read on null or undefined raises a TypeError.
Throws(j) == j.k \in {"null", "undefined"}

\* JavaScript truthiness, for `if (json.blend_mode)` and `data.verts && ...`.
Truthy(j) ==
    CASE j.k \in {"undefined", "null"} -> FALSE
      [] j.k = "boolean" -> j.v
      [] j.k = "number" -> j.v # 0
      [] j.k = "string" -> j.v # ""
      [] OTHER -> TRUE

IsArray(j) == j.k = "array"

IsNumber(j) == j.k = "number"

-----------------------------------------------------------------------------
(* Transform (lib/math/transform.ts).  Vectors are tuples of numbers.  The  *)
(* cached matrix `trs` is not read by the composition of node transforms.   *)

NewTransform == [rot |-> <<0, 0, 0>>, scale |-> <<1, 1>>, trans |-> <<0, 0, 0>>]

Vec3Add(a, b) == <<a[1] + b[1], a[2] + b[2], a[3] + b[3]>>

\* Vector.fromArray(array): array[0], array[1] (, array[2]).  It throws when
\* array is undefined or null.  The scenes of the model give numeric arrays
\* of the right length whenever they give an array.
FromArray(j) == [i \in DOMAIN j.v |-> j.v[i].v]

\* deserializeTransform(data): [err, t].
DeserializeTransform(d) ==
    IF Throws(d) \/ Throws(Get(d, "rot")) \/ Throws(Get(d, "scale"))
                 \/ Throws(Get(d, "trans"))
    THEN [err |-> TRUE, t |-> NewTransform]
    ELSE [err |-> FALSE,
          t |-> [rot |-> FromArray(Get(d, "rot")),
                 scale |-> FromArray(Get(d, "scale")),
                 trans |-> FromArray(Get(d, "trans"))]]

-----------------------------------------------------------------------------
(* MeshData (meshdata.ts).  vertices and indices are plain sequences; uvs  *)
(* and gridAxes are optional (`uvs?:`), so they hold a JavaScript value.    *)

\* constructor()
\* vertices is a sequence of <<x, y>>; indices is the JavaScript array of
\* index values as it stands; uvs and gridAxes are JavaScript values.
NewMeshData ==
    [vertices |-> <<>>, uvs |-> Undefined, indices |-> <<>>,
     origin |-> <<0, 0>>, gridAxes |-> Undefined]

\* [v.x, v.y]
PairArray(v) == Arr(<<Num(v[1]), Num(v[2])>>)

\* MeshData.serialize(): one [x, y] array per vertex (and per uv).
MeshSerialize(m) ==
    LET base == [verts |-> Arr([i \in DOMAIN m.vertices |-> PairArray(m.vertices[i])]),
                 indices |-> Arr(m.indices),
                 origin |-> PairArray(m.origin)]
        withUvs == IF IsArray(m.uvs) /\ Len(m.uvs.v) > 0
                   THEN [uvs |-> Arr([i \in DOMAIN m.uvs.v |-> PairArray(m.uvs.v[i])])]
                   ELSE <<>>
        withAxes == IF IsArray(m.gridAxes) /\ Len(m.gridAxes.v) = 2
                    THEN [grid_axes |-> m.gridAxes]
                    ELSE <<>>
    IN  Obj(base @@ withUvs @@ withAxes)

\* The loop `for (i = 0; i < a.length; i += 2)` of MeshData.deserialize: it
\* reads a[i] and a[i + 1] and keeps the pair only when both are numbers.
\* p is the 1-based position of a[i].
RECURSIVE ReadPairs(_, _)
ReadPairs(a, p) ==
    IF p > Len(a) THEN <<>>
    ELSE LET x == a[p]
             y == IF p + 1 <= Len(a) THEN a[p + 1] ELSE Undefined
         IN  (IF IsNumber(x) /\ IsNumber(y) THEN <<(<<x.v, y.v>>)>> ELSE <<>>)
             \o ReadPairs(a, p + 2)

\* MeshData.deserialize(data): [err, m].  Reading data.verts of an undefined
\* data throws.
MeshDeserialize(d) ==
    IF Throws(d) THEN [err |-> TRUE, m |-> NewMeshData]
    ELSE
    LET verts == Get(d, "verts")
        uvs == Get(d, "uvs")
        idx == Get(d, "indices")
        org == Get(d, "origin")
        axes == Get(d, "grid_axes")
    IN  [err |-> FALSE,
         m |-> [vertices |-> IF IsArray(verts) THEN ReadPairs(verts.v, 1) ELSE <<>>,
                uvs |-> IF IsArray(uvs) THEN Arr(ReadPairs(uvs.v, 1)) ELSE Undefined,
                indices |-> IF IsArray(idx) THEN idx.v ELSE <<>>,
                origin |-> IF IsArray(org) THEN FromArray(org) ELSE <<0, 0>>,
                gridAxes |-> IF IsArray(axes) THEN axes ELSE Undefined]]

-----------------------------------------------------------------------------
(* Node classes (nodes/node.ts, nodes/drawable.ts).  A node is a record of  *)
(* the heap `nodes`; parent is a heap index, 0 standing for null, and       *)
(* children is a sequence of heap indices.  actualTransform of a root is    *)
(* the very object `transform` (node.ts line 100): actualAlias records it.  *)

\* enum MaskingMode { Mask, Dodge }
MaskingModeMask == 0

\* new Node()
NewNode ==
    [cls |-> "Node", type |-> Str(""), uuid |-> Num(-1), name |-> Undefined,
     enabled |-> Bool(TRUE), zsort |-> 0, transform |-> NewTransform,
     children |-> <<>>, parent |-> 0, lockToRoot |-> Bool(FALSE),
     actualTransform |-> NewTransform, actualAlias |-> FALSE, actualZsort |-> 0]

\* new Mask()  (a Drawable)
NewMask == [NewNode EXCEPT !.cls = "Mask"] @@ [mesh |-> NewMeshData]

\* new Part()
NewPart ==
    [NewNode EXCEPT !.cls = "Part"] @@
    [mesh |-> NewMeshData, textures |-> Arr(<<>>), opacity |-> Num(1),
     mask_mode |-> Num(MaskingModeMask), mask_threshold |-> Num(0),
     masked_by |-> Arr(<<>>), blend_mode |-> "Normal"]

\* new PathDeform()
NewPathDeform ==
    [NewNode EXCEPT !.cls = "PathDeform"] @@
    [joints |-> Arr(<<>>), bindings |-> Arr(<<>>)]

\* node.actualTransform, read through the alias of a root node.
ActualTransform(heap, n) ==
    IF heap[n].actualAlias THEN heap[n].transform ELSE heap[n].actualTransform

-----------------------------------------------------------------------------
(* The document builder (nodes/node.ts deserializeNode and its helpers).    *)
(* Every operator threads the heap and returns [heap, id, err]; err = TRUE  *)
(* stands for a thrown exception, which unwinds the whole recursion.        *)

Failed == [heap |-> <<>>, id |-> 0, err |-> TRUE]

\* Mutant of SetParent: the back-reference is never stored.
SetParentDropped(heap, id, parent) == heap

\* result.parent = parent
SetParent(heap, id, parent) == [heap EXCEPT ![id].parent = parent]

\* node.lockToRoot = json.children !== undefined ? json.lockToRoot : node.lockToRoot
LockToRootOf(json, node) ==
    IF Get(json, "children") # Undefined THEN Get(json, "lockToRoot")
    ELSE node.lockToRoot

RECURSIVE DeserializeNode(_, _, _)
RECURSIVE DeserializeChildren(_, _, _, _)
RECURSIVE DeserializeBaseProperties(_, _, _)
RECURSIVE DeserializeDrawable(_, _, _)
RECURSIVE DeserializePart(_, _)
RECURSIVE DeserializeMask(_, _)
RECURSIVE DeserializePathDeform(_, _)
RECURSIVE DeserializeCustomNode(_, _)

\* The array returned by map: r is the first child's result, rest the
\* result for the children after it.
ChildrenJoin(r, rest) ==
    [heap |-> rest.heap, ids |-> <<r.id>> \o rest.ids, err |-> rest.err]

\* The rest of map after the k-th child returned r (a throw unwinds).
ChildrenAfter(r, kids, k, parent) ==
    IF r.err THEN [heap |-> <<>>, ids |-> <<>>, err |-> TRUE]
    ELSE ChildrenJoin(r, DeserializeChildren(r.heap, kids, k + 1, parent))

\* json.children.map((child) => deserializeNode(child, node)), from the
\* k-th child on: [heap, ids, err].
DeserializeChildren(heap, kids, k, parent) ==
    IF k > Len(kids) THEN [heap |-> heap, ids |-> <<>>, err |-> FALSE]
    ELSE ChildrenAfter(DeserializeNode(heap, kids[k], parent), kids, k, parent)

\* json.transform !== undefined ? deserializeTransform(json.transform)
\*                              : node.transform
TransformOf(json, node) ==
    IF Get(json, "transform") # Undefined
    THEN DeserializeTransform(Get(json, "transform"))
    ELSE [err |-> FALSE, t |-> node.transform]

\* json.children !== undefined ? json.children.map(...) : node.children
\* A value that is no array has no map method: a TypeError.
ChildrenOf(heap, json, id) ==
    IF Get(json, "children") = Undefined
    THEN [heap |-> heap, ids |-> heap[id].children, err |-> FALSE]
    ELSE IF ~IsArray(Get(json, "children"))
    THEN [heap |-> <<>>, ids |-> <<>>, err |-> TRUE]
    ELSE DeserializeChildren(heap, Get(json, "children").v, 1, id)

\* The eight assignments of deserializeBaseProperties to node n0 = heap[id],
\* tr and ch being the deserialized transform and children.
BaseAssign(n0, json, id, tr, ch) ==
    IF tr.err \/ ch.err THEN Failed
    ELSE [heap |-> [ch.heap EXCEPT ![id] =
                      [n0 EXCEPT
                         !.type = Get(json, "type"),
                         !.uuid = Get(json, "uuid"),
                         !.name = Get(json, "name"),
                         !.enabled = IF Get(json, "enabled") # Undefined
                                     THEN Get(json, "enabled") ELSE n0.enabled,
                         !.zsort = IF Get(json, "zsort") # Undefined
                                   THEN Get(json, "zsort").v ELSE n0.zsort,
                         !.transform = tr.t,
                         !.children = ch.ids,
                         !.lockToRoot = LockToRootOf(json, n0)]],
          id |-> id, err |-> FALSE]

\* deserializeBaseProperties(json, node), node being heap[id]: [heap, id, err].
DeserializeBaseProperties(heap, json, id) ==
    BaseAssign(heap[id], json, id, TransformOf(json, heap[id]),
               ChildrenOf(heap, json, id))

\* drawable.mesh = MeshData.deserialize(json.mesh), after the base
\* properties returned b.
DrawableMesh(b, m) ==
    IF b.err \/ m.err THEN Failed
    ELSE [b EXCEPT !.heap[b.id].mesh = m.m]

\* deserializeDrawable(json, drawable)
DeserializeDrawable(heap, json, id) ==
    DrawableMesh(DeserializeBaseProperties(heap, json, id),
                 MeshDeserialize(Get(json, "mesh")))

\* the switch on json.blend_mode of deserializePart
BlendModeOf(json, current) ==
    IF ~Truthy(Get(json, "blend_mode")) THEN current
    ELSE CASE Get(json, "blend_mode") = Str("Multiply") -> "Multiply"
           [] Get(json, "blend_mode") = Str("ColorDodge") -> "ColorDodge"
           [] Get(json, "blend_mode") = Str("LinearDodge") -> "LinearDodge"
           [] Get(json, "blend_mode") = Str("Screen") -> "Screen"
           [] OTHER -> "Normal"

\* The five unconditional assignments of deserializePart:
\* part.textures = json.textures; ... part.masked_by = json.masked_by
PartFields(json, part) ==
    [part EXCEPT
       !.textures = Get(json, "textures"),
       !.opacity = Get(json, "opacity"),
       !.mask_mode = Get(json, "mask_mode"),
       !.mask_threshold = Get(json, "mask_threshold"),
       !.masked_by = Get(json, "masked_by")]

\* The part-specific assignments, after deserializeDrawable returned d.
PartAssign(d, json) ==
    IF d.err THEN Failed
    ELSE [d EXCEPT !.heap[d.id] =
            [PartFields(json, d.heap[d.id]) EXCEPT
               !.blend_mode = BlendModeOf(json, d.heap[d.id].blend_mode)]]

\* deserializePart(json)
DeserializePart(heap, json) ==
    PartAssign(DeserializeDrawable(Append(heap, NewPart), json, Len(heap) + 1),
               json)

\* deserializeMask(json)
DeserializeMask(heap, json) ==
    DeserializeDrawable(Append(heap, NewMask), json, Len(heap) + 1)

\* pathDeform.joints = json.joints; pathDeform.bindings = json.bindings
PathDeformAssign(b, json) ==
    IF b.err THEN Failed
    ELSE [b EXCEPT !.heap[b.id].joints = Get(json, "joints"),
                   !.heap[b.id].bindings = Get(json, "bindings")]

\* deserializePathDeform(json)
DeserializePathDeform(heap, json) ==
    PathDeformAssign(
        DeserializeBaseProperties(Append(heap, NewPathDeform), json, Len(heap) + 1),
        json)

\* deserializeCustomNode(json)
DeserializeCustomNode(heap, json) ==
    DeserializeBaseProperties(Append(heap, NewNode), json, Len(heap) + 1)

\* Mutant of ClassOf: the case "Mask" is missing from the switch.
ClassOfWithoutMask(json) ==
    CASE Get(json, "type") = Str("Part") -> "Part"
      [] Get(json, "type") = Str("PathDeform") -> "PathDeform"
      [] OTHER -> "Node"

\* The class chosen by the switch on json.type of deserializeNode.
ClassOf(json) ==
    CASE Get(json, "type") = Str("Part") -> "Part"
      [] Get(json, "type") = Str("Mask") -> "Mask"
      [] Get(json, "type") = Str("PathDeform") -> "PathDeform"
      [] OTHER -> "Node"

\* result.parent = parent; return result, r being what the switch produced.
WithParent(r, parent) ==
    IF r.err THEN Failed
    ELSE [r EXCEPT !.heap = SetParent(r.heap, r.id, parent)]

\* The switch of deserializeNode.
DeserializeByClass(heap, json) ==
    CASE ClassOf(json) = "Part" -> DeserializePart(heap, json)
      [] ClassOf(json) = "Mask" -> DeserializeMask(heap, json)
      [] ClassOf(json) = "PathDeform" -> DeserializePathDeform(heap, json)
      [] OTHER -> DeserializeCustomNode(heap, json)

\* deserializeNode(json, parent): [heap, id, err].  Reading json.type of a
\* null json throws.  The `new Node()` first bound to `result` is dropped
\* unread and takes no place in the heap.
DeserializeNode(heap, json, parent) ==
    IF Throws(json) THEN Failed
    ELSE WithParent(DeserializeByClass(heap, json), parent)

-----------------------------------------------------------------------------
(* Node.updateTransform / Node.update (nodes/node.ts).                      *)

\* Mutant of Compose: the child translation is carried through the parent's
\* scale, as a matrix product would do.
ComposeAsMatrix(pa, t) ==
    [rot |-> Vec3Add(pa.rot, t.rot),
     trans |-> <<pa.trans[1] + pa.scale[1] * t.trans[1],
                 pa.trans[2] + pa.scale[2] * t.trans[2],
                 pa.trans[3] + t.trans[3]>>,
     scale |-> <<pa.scale[1] * t.scale[1], pa.scale[2] * t.scale[2]>>]

\* newTransform of updateTransform, from the parent's actualTransform pa and
\* the node's own transform t.
Compose(pa, t) ==
    [rot |-> Vec3Add(pa.rot, t.rot),
     trans |-> Vec3Add(pa.trans, t.trans),
     scale |-> <<pa.scale[1] * t.scale[1], pa.scale[2] * t.scale[2]>>]

\* Mutant of UpdateTransform: a node locked to the root takes its local
\* values as world values, as a root does.
UpdateTransformLocking(heap, n) ==
    LET p == heap[n].parent
    IN  IF p = 0 \/ heap[n].lockToRoot = Bool(TRUE)
        THEN [heap EXCEPT ![n].actualAlias = TRUE,
                          ![n].actualZsort = heap[n].zsort]
        ELSE [heap EXCEPT ![n].actualAlias = FALSE,
                          ![n].actualTransform =
                              Compose(ActualTransform(heap, p), heap[n].transform),
                          ![n].actualZsort = heap[p].actualZsort + heap[n].zsort]

\* node.updateTransform() for node n of the heap.
UpdateTransform(heap, n) ==
    LET p == heap[n].parent
    IN  IF p = 0
        THEN [heap EXCEPT ![n].actualAlias = TRUE,
                          ![n].actualZsort = heap[n].zsort]
        ELSE [heap EXCEPT ![n].actualAlias = FALSE,
                          ![n].actualTransform =
                              Compose(ActualTransform(heap, p), heap[n].transform),
                          ![n].actualZsort = heap[p].actualZsort + heap[n].zsort]

\* node.update()
Update(heap, n) == UpdateTransform(heap, n)

-----------------------------------------------------------------------------
(* Puppet and deserializePuppet (puppet.ts).                                *)

NoPuppet == [k |-> "none"]

\* Mutant of FlipRootY: both scale components of the root are negated.
FlipRootXY(heap, root) ==
    [heap EXCEPT ![root].transform.scale =
                     <<-(heap[root].transform.scale[1]),
                       -(heap[root].transform.scale[2])>>]

\* puppet.nodes.transform.scale.y *= -1
FlipRootY(heap, root) ==
    [heap EXCEPT ![root].transform.scale[2] = -(heap[root].transform.scale[2])]

\* The rest of deserializePuppet after deserializeNode returned r: the flip
\* of the root's Y scale and puppet.nodes.update().
PuppetOf(r, json, textures) ==
    IF r.err THEN [err |-> TRUE, heap |-> <<>>, puppet |-> NoPuppet]
    ELSE [err |-> FALSE,
          heap |-> Update(FlipRootY(r.heap, r.id), r.id),
          puppet |-> [k |-> "Puppet", meta |-> Get(json, "meta"),
                      textures |-> textures, nodes |-> r.id]]

\* deserializePuppet(json, textures): [err, heap, puppet].
DeserializePuppet(json, textures) ==
    PuppetOf(DeserializeNode(<<>>, Get(json, "nodes"), 0), json, textures)

-----------------------------------------------------------------------------
(* The JSON scenes the model loads.  A scene is {meta, nodes}; the node     *)
(* objects are built from the field templates below, with uuids numbered    *)
(* in pre-order.  The templates cover every node class, present and absent  *)
(* optional fields, an object without `type`, a field of the wrong JSON     *)
(* type, and the shapes on which the builder throws.                        *)

TransformJson(rot, scale, trans) ==
    Obj([rot |-> Arr([i \in 1..3 |-> Num(rot[i])]),
         scale |-> Arr([i \in 1..2 |-> Num(scale[i])]),
         trans |-> Arr([i \in 1..3 |-> Num(trans[i])])])

\* translation (10,0,0); as a root its scale is (2,1) once deserializePuppet
\* has negated the Y scale
TJsonA == TransformJson(<<0, 0, 0>>, <<2, -1>>, <<10, 0, 0>>)

\* local translation (5,0,0)
TJsonB == TransformJson(<<0, 0, 1>>, <<1, 1>>, <<5, 0, 0>>)

TJsonC == TransformJson(<<1, 0, 2>>, <<-1, 3>>, <<1, 2, 3>>)

\* a one-triangle mesh in the flattened layout of the scene schema
MeshJson ==
    Obj([verts |-> Arr(<<Num(0), Num(0), Num(1), Num(0), Num(0), Num(1)>>),
         indices |-> Arr(<<Num(0), Num(1), Num(2)>>),
         origin |-> Arr(<<Num(0), Num(0)>>)])

\* Templates that carry a `children` array (added by Trees).
GeneralTemplates ==
    { [type |-> Str("Node"), name |-> Str("a"), enabled |-> Bool(FALSE),
       zsort |-> Num(2), transform |-> TJsonA, lockToRoot |-> Bool(TRUE)],
      [type |-> Str("Part"), mesh |-> MeshJson, transform |-> TJsonB],
      [zsort |-> Num(1), transform |-> TJsonC],
      [type |-> Str("Part"), mesh |-> MeshJson, zsort |-> Num(-1),
       textures |-> Arr(<<Num(0)>>), opacity |-> Num(1),
       mask_mode |-> Str("Dodge"), mask_threshold |-> Num(1),
       masked_by |-> Arr(<<Num(7)>>), blend_mode |-> Str("Multiply"),
       lockToRoot |-> Bool(FALSE)] }

\* Templates without a `children` field: leaves only.
LeafTemplates ==
    { [type |-> Str("Camera"), lockToRoot |-> Bool(TRUE), zsort |-> Num(3),
       transform |-> TJsonB],
      [name |-> Str("bare")],
      [type |-> Num(7), name |-> Str("n")],
      [type |-> Str("Mask"), mesh |-> MeshJson, enabled |-> Str("yes")],
      [type |-> Str("PathDeform"), transform |-> TJsonB,
       joints |-> Arr(<<>>), bindings |-> Arr(<<>>)],
      [type |-> Str("Node"), transform |-> Num(5)],
      [type |-> Str("Node"), children |-> Num(5)],
      [type |-> Str("Part"), zsort |-> Num(1)] }

RECURSIVE TreesOf(_, _, _, _)
RECURSIVE ForestsOf(_, _, _, _)

\* The sequences of trees with n nodes in all, uuids from u on, built from
\* the templates G (with children) and L (leaves).
ForestsOf(G, L, n, u) ==
    IF n = 0 THEN {<<>>}
    ELSE UNION {{<<t>> \o f : t \in TreesOf(G, L, k, u),
                              f \in ForestsOf(G, L, n - k, u + k)}
                : k \in 1..n}

\* The node objects with n nodes in all, uuids from u on.
TreesOf(G, L, n, u) ==
    {Obj(g @@ [uuid |-> Num(u), children |-> Arr(f)])
       : g \in G, f \in ForestsOf(G, L, n - 1, u + 1)}
    \cup (IF n = 1
          THEN {Obj(l @@ [uuid |-> Num(u)]) : l \in L} \cup {NullV}
          ELSE {})

Forests(n, u) == ForestsOf(GeneralTemplates, LeafTemplates, n, u)

Trees(n, u) == TreesOf(GeneralTemplates, LeafTemplates, n, u)

\* The scenes of at most max nodes.
ScenesUpTo(max) ==
    {Obj([meta |-> Str("meta"), nodes |-> t])
       : t \in UNION {Trees(n, 1) : n \in 1..max}}

-----------------------------------------------------------------------------
(* Idle values of the variables an operation does not use.                  *)

NoBuffer == [k |-> "none"]

NoOp == [op |-> "none", node |-> 0]

NoParam == [k |-> "none"]

NoOffsets == [k |-> "none"]

-----------------------------------------------------------------------------
(* The document builder and the node updates as a state machine.            *)

InitTree ==
    /\ pc = "start"
    /\ scene \in ScenesUpTo(MaxNodes)
    /\ nodes = <<>>
    /\ puppet = NoPuppet
    /\ lastOp = NoOp
    /\ filebuffer = NoBuffer
    /\ textureLoads = <<>>
    /\ settleOrder = <<>>
    /\ builderCalls = 0
    /\ mesh = NewMeshData
    /\ data = Undefined
    /\ restored = NewMeshData
    /\ param = NoParam
    /\ node_offsets = NoOffsets
    /\ transforms = <<>>
    /\ matrices = <<>>

\* The caller's state once deserializePuppet returned r (or threw).
Built(r) ==
    /\ pc' = IF r.err THEN "failed" ELSE "ready"
    /\ nodes' = r.heap
    /\ puppet' = r.puppet

\* puppet = deserializePuppet(scene, [])
BuildPuppet ==
    /\ pc = "start"
    /\ Built(DeserializePuppet(scene, <<>>))
    /\ lastOp' = [op |-> "deserializePuppet", node |-> 0]
    /\ UNCHANGED <<scene, filebuffer, textureLoads, settleOrder, builderCalls,
                   mesh, data, restored,
                   param, node_offsets, transforms, matrices>>

\* nodes[n].update(), for any node of the loaded puppet
NodeUpdate(n) ==
    /\ pc = "ready"
    /\ nodes' = Update(nodes, n)
    /\ lastOp' = [op |-> "update", node |-> n]
    /\ UNCHANGED <<pc, scene, puppet, filebuffer, textureLoads, settleOrder,
                   builderCalls, mesh, data, restored,
                   param, node_offsets, transforms, matrices>>

NextTree ==
    \/ BuildPuppet
    \/ \E n \in 1..Len(nodes) : NodeUpdate(n)

SpecTree == InitTree /\ [][NextTree]_vars

-----------------------------------------------------------------------------
(* NodeTree (nodes/node.ts) and the renderer's traversal                    *)
(* (renderer/renderer.ts), over the heap of a loaded puppet.                *)

\* new NodeTree(root, nodes) over the nodes of the heap: root is the uuid of
\* heap[rootId], and nodes maps each uuid to its node.
NodeTreeOf(heap, rootId) ==
    [root |-> heap[rootId].uuid,
     nodes |-> [u \in {heap[i].uuid : i \in DOMAIN heap} |->
                  CHOOSE i \in DOMAIN heap : heap[i].uuid = u]]

\* tree.getNode(uuid): the heap index of the node, 0 for undefined.
GetNode(tree, uuid) ==
    IF uuid \in DOMAIN tree.nodes THEN tree.nodes[uuid] ELSE 0

RECURSIVE RecAllChildrenFromNode(_, _, _, _)
RECURSIVE RecChildrenFrom(_, _, _, _, _)

\* The loop over node.children of recAllChildrenFromNode, from the k-th
\* child on.
RecChildrenFrom(heap, kids, k, currentZsort, skipComposites) ==
    IF k > Len(kids) THEN <<>>
    ELSE RecAllChildrenFromNode(heap, kids[k], currentZsort, skipComposites)
         \o RecChildrenFrom(heap, kids, k + 1, currentZsort, skipComposites)

\* recAllChildrenFromNode(node, zsort, skipComposites): the pairs
\* [uuid, currentZsort]; the children are visited
\* if (!skipComposites || !(node.type !== "Composite")).
RecAllChildrenFromNode(heap, n, zsort, skipComposites) ==
    <<(<<heap[n].uuid, zsort + heap[n].zsort>>)>>
    \o (IF ~skipComposites \/ ~(heap[n].type # Str("Composite"))
        THEN RecChildrenFrom(heap, heap[n].children, 1, zsort + heap[n].zsort,
                             skipComposites)
        ELSE <<>>)

\* uuidZsorts.sort((a, b) => b[1] - a[1]): a stable sort by decreasing
\* second component.  Entry i goes after the entries of greater zsort and
\* after the earlier entries of equal zsort.
SortedPosition(s, i) ==
    1 + Cardinality({j \in DOMAIN s : s[j][2] > s[i][2]})
      + Cardinality({j \in 1..(i - 1) : s[j][2] = s[i][2]})

SortDescending(s) ==
    [p \in DOMAIN s |-> s[CHOOSE i \in DOMAIN s : SortedPosition(s, i) = p]]

\* sortByZsort(node, skipComposites): the uuids of the sorted pairs
SortByZsort(heap, n, skipComposites) ==
    [p \in DOMAIN RecAllChildrenFromNode(heap, n, 0, skipComposites) |->
        SortDescending(RecAllChildrenFromNode(heap, n, 0, skipComposites))[p][1]]

\* tree.zsortedRoot()
ZsortedRoot(tree, heap) ==
    IF GetNode(tree, tree.root) # 0
    THEN SortByZsort(heap, GetNode(tree, tree.root), TRUE)
    ELSE <<>>

\* node.create(textures) throws: Part.onCreateMaterials calls
\* this.textures.map(...), a TypeError when textures is no array.  The
\* other classes read nothing that can be missing.
CreateThrows(node) == node.cls = "Part" /\ ~IsArray(node.textures)

RECURSIVE CreateNode(_, _)
RECURSIVE CreateChildren(_, _, _)

\* The loop over node.children of createNode, from the k-th child on.
CreateChildren(r, kids, k) ==
    IF r.err \/ k > Len(kids) THEN r
    ELSE CreateChildren(CreateNode(r, kids[k]), kids, k + 1)

\* createNode(node, scene, parent, textures) for node n, r being the heap,
\* the nodes updated so far and whether an exception is unwinding:
\* node.create(textures), node.update(), then the children in order.
CreateNode(r, n) ==
    IF r.err THEN r
    ELSE IF CreateThrows(r.heap[n]) THEN [r EXCEPT !.err = TRUE]
    ELSE CreateChildren([heap |-> Update(r.heap, n),
                         updated |-> Append(r.updated, n), err |-> FALSE],
                        r.heap[n].children, 1)

-----------------------------------------------------------------------------
(* Loading a puppet, asking its z-order and rendering it, as a state        *)
(* machine.  The scenes have Composite nodes, and Parts with and without a  *)
(* `textures` field.                                                         *)

RenderGeneralTemplates ==
    { [type |-> Str("Composite"), zsort |-> Num(1), transform |-> TJsonB],
      [type |-> Str("Node"), zsort |-> Num(-1), transform |-> TJsonA],
      [type |-> Str("Part"), mesh |-> MeshJson, zsort |-> Num(2),
       textures |-> Arr(<<Num(0)>>), transform |-> TJsonC] }

RenderLeafTemplates ==
    { [type |-> Str("Node"), zsort |-> Num(3), transform |-> TJsonB],
      [type |-> Str("Composite"), zsort |-> Num(-2)],
      [type |-> Str("Part"), mesh |-> MeshJson, zsort |-> Num(1)] }

\* The scenes of at most max nodes built from these templates.
RenderScenesUpTo(max) ==
    {Obj([meta |-> Str("meta"), nodes |-> t])
       : t \in UNION {TreesOf(RenderGeneralTemplates, RenderLeafTemplates, n, 1)
                        : n \in 1..max}}

InitRender ==
    /\ pc = "start"
    /\ scene \in RenderScenesUpTo(MaxNodes)
    /\ nodes = <<>>
    /\ puppet = NoPuppet
    /\ lastOp = NoOp
    /\ filebuffer = NoBuffer
    /\ textureLoads = <<>>
    /\ settleOrder = <<>>
    /\ builderCalls = 0
    /\ mesh = NewMeshData
    /\ data = Undefined
    /\ restored = NewMeshData
    /\ param = NoParam
    /\ node_offsets = NoOffsets
    /\ transforms = <<>>
    /\ matrices = <<>>

\* new NodeTree(root.uuid, nodes).zsortedRoot() on the nodes of the puppet
CallZsortedRoot ==
    /\ pc \in {"ready", "rendered"}
    /\ lastOp' = [op |-> "zsortedRoot", node |-> 0,
                  ret |-> ZsortedRoot(NodeTreeOf(nodes, puppet.nodes), nodes),
                  err |-> FALSE]
    /\ UNCHANGED <<pc, scene, nodes, puppet, filebuffer, textureLoads,
                   settleOrder, builderCalls, mesh, data, restored,
                   param, node_offsets, transforms, matrices>>

\* renderPuppet(puppet, scene, camera, renderer) up to the render loop:
\* createNode(puppet.nodes, scene, scene, puppet.textures).  The nodes
\* updated before an exception stay updated.
RenderPuppet ==
    /\ pc = "ready"
    /\ \E r \in {CreateNode([heap |-> nodes, updated |-> <<>>, err |-> FALSE],
                            puppet.nodes)} :
          /\ nodes' = r.heap
          /\ lastOp' = [op |-> "renderPuppet", node |-> 0,
                        updated |-> r.updated, err |-> r.err]
    /\ pc' = "rendered"
    /\ UNCHANGED <<scene, puppet, filebuffer, textureLoads,
                   settleOrder, builderCalls, mesh, data, restored,
                   param, node_offsets, transforms, matrices>>

NextRender ==
    \/ BuildPuppet
    \/ CallZsortedRoot
    \/ RenderPuppet

SpecRender == InitRender /\ [][NextRender]_vars

-----------------------------------------------------------------------------
(* Properties of the node tree.                                             *)

\* The node objects of a JSON tree in pre-order, which is the order in
\* which the builder allocates their nodes.
RECURSIVE JsonPreorder(_)
RECURSIVE JsonPreorderAll(_, _)
JsonPreorderAll(kids, k) ==
    IF k > Len(kids) THEN <<>>
    ELSE JsonPreorder(kids[k]) \o JsonPreorderAll(kids, k + 1)

JsonPreorder(j) ==
    <<j>> \o (IF IsArray(Get(j, "children"))
              THEN JsonPreorderAll(Get(j, "children").v, 1) ELSE <<>>)

\* Node n holds the world values composed from its parent's current world
\* values and its own local values (its own local values for a root).
ComposedFromParent(n) ==
    LET N == nodes[n]
        A == ActualTransform(nodes, n)
    IN  IF N.parent = 0
        THEN A = N.transform /\ N.actualZsort = N.zsort
        ELSE LET PA == ActualTransform(nodes, N.parent)
             IN  /\ \A i \in 1..3 : A.rot[i] = PA.rot[i] + N.transform.rot[i]
                 /\ \A i \in 1..3 : A.trans[i] = PA.trans[i] + N.transform.trans[i]
                 /\ \A i \in 1..2 : A.scale[i] = PA.scale[i] * N.transform.scale[i]
                 /\ N.actualZsort = nodes[N.parent].actualZsort + N.zsort

\* C1: updateTransform composes component-wise: after update() of a node,
\* a root's world transform and zsort are its local ones, and a child's are
\* parent rotation + local rotation, parent translation + local
\* translation, parent scale * local scale per component, and parent zsort
\* + local zsort.
C1_UpdateComposesComponentWise ==
    /\ lastOp.op = "update" => ComposedFromParent(lastOp.node)
    /\ (lastOp.op = "deserializePuppet" /\ pc = "ready")
          => ComposedFromParent(puppet.nodes)

\* C1 witness: root scale (2,1), root translation (10,0,0), child local
\* translation (5,0,0): the updated child has world translation.x = 15.
C1_Witness ==
    /\ lastOp.op = "update"
    /\ nodes[lastOp.node].parent = puppet.nodes
    /\ nodes[puppet.nodes].transform.scale = <<2, 1>>
    /\ nodes[puppet.nodes].transform.trans = <<10, 0, 0>>
    /\ nodes[lastOp.node].transform.trans = <<5, 0, 0>>
    /\ ActualTransform(nodes, lastOp.node).trans[1] = 15

\* C2 (as claimed): when deserializePuppet has returned, every node of the
\* tree holds world values composed from its parent's.
C2_WholeTreeRecomputedOnLoad ==
    (lastOp.op = "deserializePuppet" /\ pc = "ready")
        => \A n \in 1..Len(nodes) : ComposedFromParent(n)

\* Following parent links from n reaches the root within `fuel` steps.
RECURSIVE ReachesRoot(_, _)
ReachesRoot(n, fuel) ==
    IF nodes[n].parent = 0 THEN n = puppet.nodes
    ELSE fuel > 0 /\ ReachesRoot(nodes[n].parent, fuel - 1)

\* The number of positions of sequence s that hold x.
Occurrences(s, x) == Cardinality({i \in DOMAIN s : s[i] = x})

\* C4: in a built tree the top-level node has parent null, every other
\* node is a child of exactly one node, which is its parent, and the parent
\* links lead from every node to the root.
C4_TreeIsWellFormed ==
    pc = "ready" =>
        /\ nodes[puppet.nodes].parent = 0
        /\ Len(nodes) = Len(JsonPreorder(Get(scene, "nodes")))
        /\ \A n \in 1..Len(nodes) :
              /\ ReachesRoot(n, Len(nodes))
              /\ n = puppet.nodes =>
                    \A q \in 1..Len(nodes) : Occurrences(nodes[q].children, n) = 0
              /\ n # puppet.nodes =>
                    /\ nodes[n].parent \in 1..Len(nodes)
                    /\ \A q \in 1..Len(nodes) :
                          Occurrences(nodes[q].children, n)
                              = IF q = nodes[n].parent THEN 1 ELSE 0

\* C4 witness: a built tree three levels deep.
C4_Witness ==
    /\ pc = "ready"
    /\ Len(nodes) = 3
    /\ nodes[3].parent = 2
    /\ nodes[2].parent = 1
    /\ nodes[1].parent = 0

\* The JSON type of the fields every node object carries: `type` is a
\* string when present and `uuid` is a number.
WellTyped(j) ==
    /\ Get(j, "type").k \in {"undefined", "string"}
    /\ Get(j, "uuid").k = "number"

\* A scene with a child object that has no `type`, or with a node object
\* whose `type` or `uuid` has the wrong JSON type.
Malformed(sc) ==
    LET js == JsonPreorder(Get(sc, "nodes"))
    IN  \/ \E i \in 2..Len(js) : Get(js[i], "type") = Undefined
        \/ \E i \in 1..Len(js) : ~WellTyped(js[i])

\* C9 (as claimed): deserializing a malformed scene fails, so no puppet is
\* returned for one.
C9_MalformedSceneFails ==
    Malformed(scene) => (pc # "ready" /\ puppet = NoPuppet)

\* The class defaults survive for the fields the JSON object j omits.
DefaultsKept(j, N) ==
    /\ Get(j, "enabled") = Undefined => N.enabled = Bool(TRUE)
    /\ Get(j, "zsort") = Undefined => N.zsort = 0
    /\ Get(j, "children") = Undefined => N.children = <<>>
    /\ Get(j, "lockToRoot") = Undefined => N.lockToRoot = Bool(FALSE)
    /\ N.cls = "Part" =>
          /\ Get(j, "textures") = Undefined => N.textures = Arr(<<>>)
          /\ Get(j, "opacity") = Undefined => N.opacity = Num(1)
          /\ Get(j, "mask_mode") = Undefined => N.mask_mode = Num(MaskingModeMask)
          /\ Get(j, "mask_threshold") = Undefined => N.mask_threshold = Num(0)
          /\ Get(j, "masked_by") = Undefined => N.masked_by = Arr(<<>>)
          /\ Get(j, "blend_mode") = Undefined => N.blend_mode = "Normal"

\* C10 (as claimed): every node of a built tree keeps the class default of
\* each optional field its JSON object omits.
C10_OmittedFieldsKeepDefaults ==
    pc = "ready" =>
        \A n \in 1..Len(nodes) :
            DefaultsKept(JsonPreorder(Get(scene, "nodes"))[n], nodes[n])

-----------------------------------------------------------------------------
(* MeshData.serialize and MeshData.deserialize as a state machine.          *)

Coords == {0, 1}

Points == {<<x, y>> : x \in Coords, y \in Coords}

\* The index lists of zero or one triangle over n vertices.
IndexLists(n) ==
    {<<>>} \cup {<<Num(a), Num(b), Num(c)>>
                    : a \in 0..(n - 1), b \in 0..(n - 1), c \in 0..(n - 1)}

\* No uv list, or one uv per vertex.
UvLists(vs) ==
    {Undefined, Arr(vs), Arr([i \in DOMAIN vs |-> <<1 - vs[i][1], vs[i][2]>>])}

MeshOf(vs, uv, ix, o) ==
    [vertices |-> vs, uvs |-> uv, indices |-> ix, origin |-> o,
     gridAxes |-> Undefined]

\* The meshes of n vertices.
MeshesOfSize(n) ==
    UNION {{MeshOf(vs, uv, ix, o) : uv \in UvLists(vs), ix \in IndexLists(n),
                                    o \in {<<0, 0>>, <<1, 2>>}}
             : vs \in [1..n -> Points]}

\* The meshes of at most max vertices.
MeshesUpTo(max) == UNION {MeshesOfSize(n) : n \in 0..max}

NoMesh == [k |-> "none"]

InitMesh ==
    /\ pc = "mesh"
    /\ mesh \in MeshesUpTo(MaxVerts)
    /\ data = Undefined
    /\ restored = NoMesh
    /\ param = NoParam
    /\ node_offsets = NoOffsets
    /\ transforms = <<>>
    /\ matrices = <<>>
    /\ scene = Undefined
    /\ nodes = <<>>
    /\ puppet = NoPuppet
    /\ lastOp = NoOp
    /\ filebuffer = NoBuffer
    /\ textureLoads = <<>>
    /\ settleOrder = <<>>
    /\ builderCalls = 0

\* const data = m.serialize()
Serialize ==
    /\ pc = "mesh"
    /\ data' = MeshSerialize(mesh)
    /\ pc' = "serialized"
    /\ UNCHANGED <<scene, nodes, puppet, lastOp, filebuffer, textureLoads,
                   settleOrder, builderCalls, mesh, restored,
                   param, node_offsets, transforms, matrices>>

\* const restored = MeshData.deserialize(data)
Deserialize ==
    /\ pc = "serialized"
    /\ restored' = MeshDeserialize(data).m
    /\ pc' = "restored"
    /\ UNCHANGED <<scene, nodes, puppet, lastOp, filebuffer, textureLoads,
                   settleOrder, builderCalls, mesh, data,
                   param, node_offsets, transforms, matrices>>

NextMesh == Serialize \/ Deserialize

SpecMesh == InitMesh /\ [][NextMesh]_vars

\* C3: MeshData.deserialize(m.serialize()) reproduces m's vertices (count,
\* order and coordinates), indices, uvs and origin, for every mesh with zero
\* or more vertices and an index count divisible by 3.
C3_RoundTripReproducesMesh ==
    pc = "restored" =>
        /\ restored.vertices = mesh.vertices
        /\ restored.indices = mesh.indices
        /\ restored.origin = mesh.origin
        /\ (IsArray(mesh.uvs) /\ Len(mesh.uvs.v) > 0 => restored.uvs = mesh.uvs)

-----------------------------------------------------------------------------
(* inImport (inp.ts) as a state machine.  The buffer is kept as the fields  *)
(* the binary parser cuts it into: the two 8-byte magics as byte tuples,    *)
(* the scene payload, and the texture records [type, data].  A texture      *)
(* load is a promise [state, value]; decoding data 0 fails.                 *)

\* "TRNSRTS\0"
MagicTrnsrts == <<84, 82, 78, 83, 82, 84, 83, 0>>

\* "TEX_SECT"
MagicTexSect == <<84, 69, 88, 95, 83, 69, 67, 84>>

FirstMagics ==
    {MagicTrnsrts, [MagicTrnsrts EXCEPT ![1] = 73], [MagicTrnsrts EXCEPT ![8] = 32]}

SecondMagics == {MagicTexSect, [MagicTexSect EXCEPT ![8] = 83]}

\* A payload that is not JSON text.
NotJson == [k |-> "text"]

Payloads ==
    { Obj([meta |-> Str("meta"),
           nodes |-> Obj([type |-> Str("Node"), uuid |-> Num(1),
                          transform |-> TJsonC])]),
      Obj([meta |-> Str("meta"),
           nodes |-> Obj([type |-> Str("Node"), uuid |-> Num(1),
                          transform |-> TJsonA,
                          children |-> Arr(<<Obj([type |-> Str("Part"),
                                                  uuid |-> Num(2),
                                                  mesh |-> MeshJson,
                                                  transform |-> TJsonB])>>)])]),
      Obj([meta |-> Str("meta"),
           nodes |-> Obj([type |-> Str("Node"), uuid |-> Num(1),
                          transform |-> Num(5)])]),
      NotJson }

TextureTypes == {0, 1, 2}

TextureDatas == {0, 1, 2}

TextureRecords == [type : TextureTypes, data : TextureDatas]

\* The containers of at most max texture records.
BuffersUpTo(max) ==
    [magic1 : FirstMagics, payload : Payloads, magic2 : SecondMagics,
     textures : UNION {[1..n -> TextureRecords] : n \in 0..max}]

\* Mutant of MagicOk: the assert on the second magic is left out.
MagicOkFirstOnly(buf) == buf.magic1 = MagicTrnsrts

\* The two assert options of inpparser: parse throws on a mismatch.
MagicOk(buf) == buf.magic1 = MagicTrnsrts /\ buf.magic2 = MagicTexSect

\* Mutant of KnownType: no tag reaches the default case.
KnownTypeLax(t) == TRUE

\* The cases of switch(t); any other t reaches the default, which throws.
KnownType(t) == t \in {0, 1}

\* decode(data) / decodeTga(data) throw or reject on undecodable data.
Decodable(d) == d # 0

\* new THREE.DataTexture(...) with generateMipmaps and needsUpdate set
DataTexture(d) ==
    [k |-> "DataTexture", image |-> d, generateMipmaps |-> TRUE,
     needsUpdate |-> TRUE]

Pending == [state |-> "pending", value |-> Undefined]

\* The promise once the decoding of d has finished.
Settled(d) ==
    IF Decodable(d) THEN [state |-> "fulfilled", value |-> DataTexture(d)]
    ELSE [state |-> "rejected", value |-> Undefined]

\* case 0 decodes inside the promise executor, so the promise is settled
\* when push returns; case 1 leaves it pending until decodeTga settles.
TextureLoad(rec) == IF rec.type = 0 THEN Settled(rec.data) ELSE Pending

\* Mutant of AllFulfilled: the wait ends once no promise is pending.
AllSettled(loads) == \A i \in DOMAIN loads : loads[i].state # "pending"

\* Promise.all(textureLoads) fulfils when every promise is fulfilled ...
AllFulfilled(loads) == \A i \in DOMAIN loads : loads[i].state = "fulfilled"

\* ... and rejects as soon as one is rejected.
AnyRejected(loads) == \E i \in DOMAIN loads : loads[i].state = "rejected"

\* Mutant of PromiseAll: the values in the order the promises settled.
PromiseAllInSettleOrder(loads, order) ==
    [i \in DOMAIN loads |-> loads[order[i]].value]

\* The value of Promise.all: the promises' values by index, whatever the
\* order in which they settled.
PromiseAll(loads, order) == [i \in DOMAIN loads |-> loads[i].value]

\* JSON.parse(parsed.payload): [err, v]
JsonParse(p) ==
    IF p = NotJson THEN [err |-> TRUE, v |-> Undefined]
    ELSE [err |-> FALSE, v |-> p]

InitLoad ==
    /\ pc = "import"
    /\ filebuffer \in BuffersUpTo(MaxTextures)
    /\ textureLoads = <<>>
    /\ settleOrder = <<>>
    /\ builderCalls = 0
    /\ puppet = NoPuppet
    /\ nodes = <<>>
    /\ scene = Undefined
    /\ lastOp = NoOp
    /\ mesh = NewMeshData
    /\ data = Undefined
    /\ restored = NoMesh
    /\ param = NoParam
    /\ node_offsets = NoOffsets
    /\ transforms = <<>>
    /\ matrices = <<>>

\* let parsed = inpparser.parse(filebuffer)
Parse ==
    /\ pc = "import"
    /\ pc' = IF MagicOk(filebuffer) THEN "forEach" ELSE "rejected"
    /\ UNCHANGED <<scene, nodes, puppet, lastOp, filebuffer, textureLoads,
                   settleOrder, builderCalls, mesh, data, restored,
                   param, node_offsets, transforms, matrices>>

\* One call of the forEach callback, on the record after those already
\* pushed: it pushes the record's promise, or throws out of inImport.
ForEachTexture ==
    /\ pc = "forEach"
    /\ Len(textureLoads) < Len(filebuffer.textures)
    /\ LET i == Len(textureLoads) + 1
           rec == filebuffer.textures[i]
           load == TextureLoad(rec)
       IN  IF KnownType(rec.type)
           THEN /\ textureLoads' = Append(textureLoads, load)
                /\ settleOrder' = IF load.state = "pending" THEN settleOrder
                                  ELSE Append(settleOrder, i)
                /\ pc' = pc
           ELSE /\ pc' = "rejected"
                /\ UNCHANGED <<textureLoads, settleOrder,
                               param, node_offsets, transforms, matrices>>
    /\ UNCHANGED <<scene, nodes, puppet, lastOp, filebuffer, builderCalls,
                   mesh, data, restored,
                   param, node_offsets, transforms, matrices>>

\* forEach returns and the async function suspends at await Promise.all.
AwaitAll ==
    /\ pc = "forEach"
    /\ Len(textureLoads) = Len(filebuffer.textures)
    /\ pc' = "await"
    /\ UNCHANGED <<scene, nodes, puppet, lastOp, filebuffer, textureLoads,
                   settleOrder, builderCalls, mesh, data, restored,
                   param, node_offsets, transforms, matrices>>

\* decodeTga of record i settles, once inImport has left the event loop
\* turn that started it; the siblings of a failed load settle as well.
TgaSettle(i) ==
    /\ pc \in {"await", "done", "rejected"}
    /\ textureLoads[i].state = "pending"
    /\ textureLoads' = [textureLoads EXCEPT ![i] = Settled(filebuffer.textures[i].data)]
    /\ settleOrder' = Append(settleOrder, i)
    /\ UNCHANGED <<pc, scene, nodes, puppet, lastOp, filebuffer, builderCalls,
                   mesh, data, restored,
                   param, node_offsets, transforms, matrices>>

\* The state once deserializePuppet returned r (or threw):
\* puppet.textures = Array.from(textures); return puppet
Imported(r, textures) ==
    /\ builderCalls' = builderCalls + 1
    /\ pc' = IF r.err THEN "rejected" ELSE "done"
    /\ nodes' = r.heap
    /\ puppet' = IF r.err THEN NoPuppet
                 ELSE [r.puppet EXCEPT !.textures = textures]

\* deserializePuppet(JSON.parse(parsed.payload), textures)
Resumed(j, textures) ==
    IF j.err
    THEN pc' = "rejected" /\ UNCHANGED <<builderCalls, nodes, puppet,
                                         param, node_offsets, transforms, matrices>>
    ELSE Imported(DeserializePuppet(j.v, textures), textures)

\* Promise.all fulfils and the async function runs to its return.
AwaitFulfilled ==
    /\ pc = "await"
    /\ AllFulfilled(textureLoads)
    /\ Resumed(JsonParse(filebuffer.payload), PromiseAll(textureLoads, settleOrder))
    /\ UNCHANGED <<scene, lastOp, filebuffer, textureLoads, settleOrder,
                   mesh, data, restored,
                   param, node_offsets, transforms, matrices>>

\* Promise.all rejects and the await throws.
AwaitRejected ==
    /\ pc = "await"
    /\ AnyRejected(textureLoads)
    /\ pc' = "rejected"
    /\ UNCHANGED <<scene, nodes, puppet, lastOp, filebuffer, textureLoads,
                   settleOrder, builderCalls, mesh, data, restored,
                   param, node_offsets, transforms, matrices>>

NextLoad ==
    \/ Parse
    \/ ForEachTexture
    \/ AwaitAll
    \/ \E i \in DOMAIN textureLoads : TgaSettle(i)
    \/ AwaitFulfilled
    \/ AwaitRejected

SpecLoad == InitLoad /\ [][NextLoad]_vars

-----------------------------------------------------------------------------
(* Properties of inImport.                                                  *)

\* C5: the Puppet returned by inImport has exactly as many textures as the
\* container has records and textures[i] is the decoding of the i-th
\* record, in whatever order the decodes completed (none for no record).
C5_TexturesFollowRecordOrder ==
    pc = "done" =>
        /\ Len(puppet.textures) = Len(filebuffer.textures)
        /\ \A i \in DOMAIN filebuffer.textures :
              puppet.textures[i] = DataTexture(filebuffer.textures[i].data)

\* C5 witness: a returned Puppet with two different textures whose decodes
\* completed in the reverse of the record order.
C5_Witness ==
    /\ pc = "done"
    /\ settleOrder = <<2, 1>>
    /\ filebuffer.textures[1].data # filebuffer.textures[2].data
    /\ puppet.textures[1].image = filebuffer.textures[1].data

\* C6: deserializePuppet runs only after every decode task has completed
\* successfully; once a decode task has failed the builder has not run and
\* never runs, no Puppet exists and inImport is rejected or about to be.
C6_BuilderOnlyAfterAllDecodes ==
    /\ builderCalls > 0 =>
          /\ Len(textureLoads) = Len(filebuffer.textures)
          /\ AllFulfilled(textureLoads)
    /\ AnyRejected(textureLoads) =>
          /\ builderCalls = 0
          /\ puppet = NoPuppet
          /\ pc \in {"forEach", "await", "rejected"}
    /\ pc = "done" => builderCalls = 1

\* C6 witness: inImport has rejected on a failed decode while a sibling
\* decode is still running, and the builder has not been invoked.
C6_Witness ==
    /\ pc = "rejected"
    /\ builderCalls = 0
    /\ Len(textureLoads) = 2
    /\ textureLoads[1].state = "pending"
    /\ textureLoads[2].state = "rejected"

\* C7: when some texture record carries a format tag outside {0,1},
\* inImport never returns a Puppet and never runs the builder, wherever the
\* record stands and however many records are valid.
C7_UnknownTextureTypeFails ==
    (\E i \in DOMAIN filebuffer.textures : filebuffer.textures[i].type \notin {0, 1})
        => /\ pc # "done"
           /\ pc # "await"
           /\ puppet = NoPuppet
           /\ builderCalls = 0

\* C7 witness: inImport has thrown on a record tagged 2 that follows a
\* valid record in a well-formed container.
C7_Witness ==
    /\ pc = "rejected"
    /\ MagicOk(filebuffer)
    /\ Len(filebuffer.textures) = 2
    /\ filebuffer.textures[1].type = 1
    /\ Decodable(filebuffer.textures[1].data)
    /\ filebuffer.textures[2].type = 2
    /\ Len(textureLoads) = 1

\* C8: when the first magic is not TRNSRTS\0 or the magic after the payload
\* is not TEX_SECT, inImport fails before any texture load is created and
\* before the builder runs, and no Puppet exists.
C8_BadMagicFailsBeforeDecoding ==
    (filebuffer.magic1 # MagicTrnsrts \/ filebuffer.magic2 # MagicTexSect)
        => /\ pc \in {"import", "rejected"}
           /\ textureLoads = <<>>
           /\ builderCalls = 0
           /\ puppet = NoPuppet

\* C8 witness: inImport has rejected a buffer whose second magic alone is
\* wrong and which carries decodable texture records and a loadable scene.
C8_Witness ==
    /\ pc = "rejected"
    /\ filebuffer.magic1 = MagicTrnsrts
    /\ filebuffer.magic2 # MagicTexSect
    /\ Len(filebuffer.textures) > 0
    /\ \A i \in DOMAIN filebuffer.textures :
          /\ filebuffer.textures[i].type \in {0, 1}
          /\ Decodable(filebuffer.textures[i].data)
    /\ filebuffer.payload # NotJson

-----------------------------------------------------------------------------
(* Further properties of the node tree.                                     *)

\* The class the claim assigns to a JSON node object.
ExpectedClass(j) ==
    IF Get(j, "type") = Str("Part") THEN "Part"
    ELSE IF Get(j, "type") = Str("Mask") THEN "Mask"
    ELSE IF Get(j, "type") = Str("PathDeform") THEN "PathDeform"
    ELSE "Node"

\* C11: at every depth of a built tree a node is a Part exactly when its
\* JSON type is "Part", a Mask exactly when it is "Mask", a PathDeform
\* exactly when it is "PathDeform", and a generic Node for every other
\* type value, a missing one included.
C11_TypeSelectsNodeClass ==
    pc = "ready" =>
        \A n \in 1..Len(nodes) :
            nodes[n].cls = ExpectedClass(JsonPreorder(Get(scene, "nodes"))[n])

\* C11 witness: a built tree three levels deep with a Part root, below it
\* a generic Node made from an object without `type`, below it a Mask.
C11_Witness ==
    /\ pc = "ready"
    /\ Len(nodes) = 3
    /\ nodes[1].cls = "Part"
    /\ nodes[2].cls = "Node" /\ nodes[2].parent = 1
    /\ Get(JsonPreorder(Get(scene, "nodes"))[2], "type") = Undefined
    /\ nodes[3].cls = "Mask" /\ nodes[3].parent = 2

\* The local transform authored in JSON node object j (the constructor's
\* transform when j has none).
Authored(j) ==
    IF Get(j, "transform") = Undefined THEN NewTransform
    ELSE [rot |-> [i \in 1..3 |-> Get(Get(j, "transform"), "rot").v[i].v],
          scale |-> [i \in 1..2 |-> Get(Get(j, "transform"), "scale").v[i].v],
          trans |-> [i \in 1..3 |-> Get(Get(j, "transform"), "trans").v[i].v]]

\* C12: in a loaded puppet the root's local Y scale is the negated
\* authored value, every other component of the root's local transform is
\* the authored one, and so is the local transform of every other node;
\* later updates do not negate again.
C12_RootYScaleNegatedOnce ==
    pc = "ready" =>
        \A n \in 1..Len(nodes) :
            LET a == Authored(JsonPreorder(Get(scene, "nodes"))[n])
            IN  nodes[n].transform =
                    IF n = puppet.nodes
                    THEN [a EXCEPT !.scale[2] = -(a.scale[2])]
                    ELSE a

\* C12 witness: a loaded and updated two-node puppet whose root was
\* authored with scale (2,-1) and now has scale (2,1), above a child whose
\* authored scale (1,1) and translation (5,0,0) are unchanged.
C12_Witness ==
    /\ pc = "ready"
    /\ lastOp.op = "update"
    /\ Len(nodes) = 2
    /\ Authored(Get(scene, "nodes")).scale = <<2, -1>>
    /\ nodes[1].transform.scale = <<2, 1>>
    /\ nodes[2].transform.scale = <<1, 1>>
    /\ nodes[2].transform.trans = <<5, 0, 0>>

\* The heap with the lockToRoot flag of the nodes in S set to b.
WithLockToRoot(heap, S, b) ==
    [n \in DOMAIN heap |->
        IF n \in S THEN [heap[n] EXCEPT !.lockToRoot = Bool(b)] ELSE heap[n]]

\* The world values updateTransform leaves in node n of the heap.
WorldAfterUpdate(heap, n) ==
    [transform |-> ActualTransform(UpdateTransform(heap, n), n),
     zsort |-> UpdateTransform(heap, n)[n].actualZsort]

\* The nodes on which updateTransform has just run: the root after
\* deserializePuppet, the updated node after update().
JustUpdated ==
    IF lastOp.op = "update" THEN {lastOp.node}
    ELSE IF lastOp.op = "deserializePuppet" /\ pc = "ready" THEN {puppet.nodes}
    ELSE {}

\* C13: for every tree and every node of it that updateTransform has run
\* on, updateTransform yields the same actualTransform and actualZsort
\* whatever lockToRoot is on the node and on any other node of the tree.
C13_LockToRootIsIgnored ==
    \A n \in JustUpdated :
        \A S \in SUBSET (1..Len(nodes)) :
            \A b \in BOOLEAN :
                WorldAfterUpdate(WithLockToRoot(nodes, S, b), n)
                    = WorldAfterUpdate(nodes, n)

\* C13 witness: a node with lockToRoot = true below a root with a
\* translation has been updated and its world translation differs from its
\* local one.
C13_Witness ==
    /\ lastOp.op = "update"
    /\ nodes[lastOp.node].parent # 0
    /\ nodes[lastOp.node].lockToRoot = Bool(TRUE)
    /\ nodes[nodes[lastOp.node].parent].lockToRoot = Bool(TRUE)
    /\ ActualTransform(nodes, lastOp.node).trans # nodes[lastOp.node].transform.trans

-----------------------------------------------------------------------------
(* Grid meshes (meshdata.ts): createQuadMesh, isGrid, clearGridIsDirty,     *)
(* regenerateGrid, fixWinding.  Coordinates are integers: the sizes drawn   *)
(* below are multiples of every cut count, so size / cuts is exact.         *)

MaxCuts == 3

\* Mutant of ClampCuts: the cut count is taken as given.
ClampCutsNone(c) == c

\* Math.max(2, cuts.x)
ClampCuts(c) == IF c < 2 THEN 2 ELSE c

\* const m: Map<[number, number], number>.  A key is an array object, which
\* a Map finds by identity: an entry is [ref, key, value] with ref the
\* identity of the key array, and a lookup passes the identity of the array
\* it was given.

\* m.get(k) for the array object k = [ref, key]
MapGet(m, k) ==
    IF \E i \in DOMAIN m : m[i].ref = k.ref
    THEN Num(m[CHOOSE i \in DOMAIN m : m[i].ref = k.ref].value)
    ELSE Undefined

\* The j-th array literal evaluated after the map m was filled: a new
\* object, distinct from every key stored in m.
NewKey(m, j, key) == [ref |-> Len(m) + j, key |-> key]

\* The map after the vertex loops: m.set([x, y], data.vertices.length - 1)
\* stored vertex number k (0-based, row-major, nx vertices per row) under
\* a new array [x, y] each time.
VertexMap(n, nx) ==
    [k \in 1..n |-> [ref |-> k, key |-> <<(k - 1) % nx, (k - 1) \div nx>>,
                     value |-> k - 1]]

\* The six indices pushed for the cell with bottom-left corner (x, y);
\* diag selects the first of the two push statements.
CellIndices(m, x, y, diag) ==
    LET indice0 == MapGet(m, NewKey(m, 1, <<x, y>>))
        indice1 == MapGet(m, NewKey(m, 2, <<x, y + 1>>))
        indice2 == MapGet(m, NewKey(m, 3, <<x + 1, y>>))
        indice3 == MapGet(m, NewKey(m, 4, <<x + 1, y + 1>>))
    IN  IF diag
        THEN <<indice0, indice2, indice3, indice0, indice3, indice1>>
        ELSE <<indice0, indice1, indice2, indice1, indice2, indice3>>

\* The index array after the cell loops: the six indices of each cell, in
\* the order the cells were visited.
PushedIndices(cells) ==
    [e \in 1..(6 * Len(cells)) |-> cells[((e - 1) \div 6) + 1][((e - 1) % 6) + 1]]

\* The cells visited by the index loops, y outermost: cell c (1-based) of
\* nx cells per row has corner (x, y) = ((c - 1) % nx, (c - 1) \div nx).
CellX(c, nx) == (c - 1) % nx
CellY(c, nx) == (c - 1) \div nx

\* (x < center.x && y < center.y) || (x >= center.x && y >= center.y) of
\* createQuadMesh, center being (floor(cuts.x / 2), floor(cuts.y / 2)).
QuadDiag(x, y, cx, cy) ==
    \/ x < cx \div 2 /\ y < cy \div 2
    \/ x >= cx \div 2 /\ y >= cy \div 2

\* The uvs of createQuadMesh: new Vector2(uvBounds.x + x * uvx,
\* uvBounds.y + y * uvy) is pushed for each vertex if (data.uvs), uvs being
\* the uvs field of the new MeshData.  uvx = uvBounds.z / cuts.x and
\* uvy = uvBounds.w / cuts.y are exact for the bounds the model draws.
QuadUvs(uvs, uvBounds, cx, cy) ==
    IF Truthy(uvs)
    THEN Arr(uvs.v \o
             [k \in 1..((cx + 1) * (cy + 1)) |->
                <<uvBounds[1] + ((k - 1) % (cx + 1)) * (uvBounds[3] \div cx),
                  uvBounds[2] + ((k - 1) \div (cx + 1)) * (uvBounds[4] \div cy)>>])
    ELSE uvs

\* MeshData.createQuadMesh(size, uvBounds, cuts, origin).  The constructor
\* leaves data.uvs undefined and nothing assigns it, so no uv is stored; the
\* origin argument shifts the vertices and data.origin stays (0, 0).
CreateQuadMesh(size, uvBounds, cuts, origin) ==
    LET cx == ClampCuts(cuts[1])
        cy == ClampCuts(cuts[2])
        sw == size[1] \div cx
        sh == size[2] \div cy
        n == (cx + 1) * (cy + 1)
        m == VertexMap(n, cx + 1)
    IN  [vertices |-> [k \in 1..n |-> <<((k - 1) % (cx + 1)) * sw - origin[1],
                                       ((k - 1) \div (cx + 1)) * sh - origin[2]>>],
         uvs |-> QuadUvs(NewMeshData.uvs, uvBounds, cx, cy),
         indices |-> PushedIndices(
                        [c \in 1..(cx * cy) |->
                           CellIndices(m, CellX(c, cx), CellY(c, cx),
                                       QuadDiag(CellX(c, cx), CellY(c, cx), cx, cy))]),
         origin |-> <<0, 0>>,
         gridAxes |-> Arr(<<Arr([y \in 1..(cy + 1) |-> Num((y - 1) * sh - origin[2])]),
                            Arr([k \in 1..n |->
                                   Num(((k - 1) % (cx + 1)) * sw - origin[1])])>>)]

\* this.gridAxes[k] as a sequence of numbers (k = 1 for gridAxes[0]).
Axis(m, k) == [i \in DOMAIN m.gridAxes.v[k].v |-> m.gridAxes.v[k].v[i].v]

\* The vertices the loops `for y of gridAxes[0]`, `for x of gridAxes[1]`
\* visit, in the order they visit them.
AxesCross(ys, xs) ==
    [k \in 1..(Len(ys) * Len(xs)) |->
        <<xs[((k - 1) % Len(xs)) + 1], ys[((k - 1) \div Len(xs)) + 1]>>]

\* isGrid()
IsGrid(m) ==
    /\ m.gridAxes # Undefined
    /\ Len(m.gridAxes.v) = 2
    /\ Len(m.gridAxes.v[1].v) > 2
    /\ Len(m.gridAxes.v[2].v) > 2

\* clearGrid(): both axis arrays are emptied in place.
ClearGrid(m) ==
    [ret |-> TRUE,
     m |-> [m EXCEPT !.gridAxes = Arr(<<Arr(<<>>), Arr(<<>>)>>)]]

\* Mutant of ClearGridIsDirty: only the vertex count is compared.
ClearGridIsDirtyCountOnly(m) ==
    IF \/ m.gridAxes = Undefined
       \/ Len(m.gridAxes.v[1].v) = 0
       \/ Len(m.gridAxes.v[2].v) = 0
    THEN [ret |-> FALSE, m |-> m]
    ELSE IF Len(m.vertices) # Len(m.gridAxes.v[1].v) * Len(m.gridAxes.v[2].v)
    THEN ClearGrid(m)
    ELSE [ret |-> FALSE, m |-> m]

\* clearGridIsDirty(): [ret, m]
ClearGridIsDirty(m) ==
    IF \/ m.gridAxes = Undefined
       \/ Len(m.gridAxes.v[1].v) = 0
       \/ Len(m.gridAxes.v[2].v) = 0
    THEN [ret |-> FALSE, m |-> m]
    ELSE IF Len(m.vertices) # Len(m.gridAxes.v[1].v) * Len(m.gridAxes.v[2].v)
    THEN ClearGrid(m)
    ELSE IF \E k \in DOMAIN m.vertices :
               AxesCross(Axis(m, 1), Axis(m, 2))[k] # m.vertices[k]
    THEN ClearGrid(m)
    ELSE [ret |-> FALSE, m |-> m]

\* A quotient the model does not evaluate.
Ratio(n, d) == [num |-> n, den |-> d]

\* (xValue < center.x && yValue < center.y) ||
\* (xValue >= center.x && yValue >= center.y) of regenerateGrid, with
\* center = (minX + width / 2, minY + height / 2), width = maxY - minY and
\* height = maxX - minX; both sides of each comparison are doubled.
RegenDiag(xValue, yValue, ys, xs) ==
    LET width == ys[Len(ys)] - ys[1]
        height == xs[Len(xs)] - xs[1]
    IN  \/ /\ 2 * xValue < 2 * xs[1] + width
           /\ 2 * yValue < 2 * ys[1] + height
        \/ /\ 2 * xValue >= 2 * xs[1] + width
           /\ 2 * yValue >= 2 * ys[1] + height

\* The mesh regenerateGrid builds from the axes ys = gridAxes[0] and
\* xs = gridAxes[1].
Regenerated(m, ys, xs) ==
    LET n == Len(ys) * Len(xs)
        map == VertexMap(n, Len(xs))
        nx == Len(xs) - 1
    IN  [m EXCEPT
           !.vertices = AxesCross(ys, xs),
           !.uvs = IF Truthy(m.uvs)
                   THEN Arr([k \in 1..n |->
                              <<Ratio(AxesCross(ys, xs)[k][1] - xs[1],
                                      ys[Len(ys)] - ys[1]),
                                Ratio(AxesCross(ys, xs)[k][2] - ys[1],
                                      xs[Len(xs)] - xs[1])>>])
                   ELSE m.uvs,
           !.indices = PushedIndices(
                          [c \in 1..(nx * (Len(ys) - 1)) |->
                             CellIndices(map, CellX(c, nx), CellY(c, nx),
                                         RegenDiag(xs[CellX(c, nx) + 1],
                                                   ys[CellY(c, nx) + 1], ys, xs))])]

\* regenerateGrid(): [ret, m]
RegenerateGrid(m) ==
    IF \/ m.gridAxes = Undefined
       \/ Len(m.gridAxes.v[1].v) < 2
       \/ Len(m.gridAxes.v[2].v) < 2
    THEN [ret |-> FALSE, m |-> m]
    ELSE [ret |-> TRUE, m |-> Regenerated(m, Axis(m, 1), Axis(m, 2))]

\* isReady() without the test that the index count is a multiple of 3.
IsReadyNonEmpty(m) == Len(m.indices) # 0

\* isReady()
IsReady(m) == Len(m.indices) # 0 /\ Len(m.indices) % 3 = 0

\* ix, an entry of the index array, is the number of a vertex, so that
\* this.vertices[ix] is not undefined.
IsVertexNumber(m, ix) == ix.k = "number" /\ ix.v \in 0..(Len(m.vertices) - 1)

\* this.vertices[ix]
VertexAt(m, ix) == m.vertices[ix.v + 1]

\* Reading .x of vertA, vertB or vertC of triangle t (0-based) throws.
TriangleThrows(m, t) ==
    \E c \in 1..3 : ~IsVertexNumber(m, m.indices[3 * t + c])

\* (vertB.x - vertA.x) * (vertC.y - vertA.y)
\*     - (vertB.y - vertA.y) * (vertC.x - vertA.x)
Cross(a, b, c) ==
    (b[1] - a[1]) * (c[2] - a[2]) - (b[2] - a[2]) * (c[1] - a[1])

\* Mutant of Clockwise: a triangle is taken as clockwise when its cross
\* product is positive.
ClockwiseFlipped(m, t) ==
    Cross(VertexAt(m, m.indices[3 * t + 1]), VertexAt(m, m.indices[3 * t + 2]),
          VertexAt(m, m.indices[3 * t + 3])) > 0

\* cw of triangle t (0-based)
Clockwise(m, t) ==
    Cross(VertexAt(m, m.indices[3 * t + 1]), VertexAt(m, m.indices[3 * t + 2]),
          VertexAt(m, m.indices[3 * t + 3])) < 0

\* fixWinding(): [err, m].  The loop throws at the first triangle with an
\* entry that is no vertex number; the triangles before it are already
\* fixed.
FixWinding(m) ==
    IF ~IsReady(m) THEN [err |-> FALSE, m |-> m]
    ELSE
    LET tris == 0..((Len(m.indices) \div 3) - 1)
        bad == {t \in tris : TriangleThrows(m, t)}
        stop == IF bad = {} THEN Len(m.indices) \div 3
                ELSE CHOOSE t \in bad : \A u \in bad : t <= u
        swapped(e) ==
            LET t == (e - 1) \div 3
                c == ((e - 1) % 3) + 1
            IN  IF t < stop /\ c # 1 /\ Clockwise(m, t)
                THEN m.indices[3 * t + (5 - c)]
                ELSE m.indices[e]
    IN  [err |-> bad # {},
         m |-> [m EXCEPT !.indices = [e \in DOMAIN m.indices |-> swapped(e)]]]

\* add(vertex, uv)
Add(m, vertex, uv) ==
    [m EXCEPT !.vertices = Append(m.vertices, vertex),
              !.uvs = IF Truthy(m.uvs) THEN Arr(Append(m.uvs.v, uv)) ELSE m.uvs]

\* clearConnections(): this.indices.length = 0
ClearConnections(m) == [m EXCEPT !.indices = <<>>]

\* connect(first, second): this.indices.push(first, second)
Connect(m, first, second) ==
    [m EXCEPT !.indices = m.indices \o <<Num(first), Num(second)>>]

-----------------------------------------------------------------------------
(* The grid mesh operations as state machines: a mesh is made by            *)
(* createQuadMesh, or read from a saved grid and edited at most once, and   *)
(* the MeshData methods are called on it in any order.  lastOp records the  *)
(* last call: its arguments, its return value, whether it threw, the mesh   *)
(* before it and the call before it.                                        *)

QuadSizes == {<<12, 12>>, <<12, 24>>}

QuadCuts == (1..MaxCuts) \X (1..MaxCuts)

QuadOrigins == {<<0, 0>>, <<6, 12>>}

\* uvBounds arguments (x, y, z, w): z and w are multiples of every cuts
\* value, so that the uv increments are whole numbers.
QuadUvBounds == {<<0, 0, 12, 12>>, <<12, 0, 24, 12>>}

\* The axis arrays of the saved grids.
SavedAxes == {<<3>>, <<0, 1>>, <<0, 2, 5>>}

\* The displacements of an edited vertex.
Moves == {<<1, 0>>, <<0, -2>>}

\* The JSON of a saved grid mesh with the axes ys and xs, in the layout
\* MeshData.deserialize reads; with hasUvs the file has a `uvs` array, one
\* uv (0, 0) per vertex.
GridJson(ys, xs, hasUvs) ==
    Obj([verts |-> Arr([k \in 1..(2 * Len(ys) * Len(xs)) |->
                          Num(AxesCross(ys, xs)[(k + 1) \div 2][2 - (k % 2)])]),
         indices |-> Arr(<<>>),
         origin |-> Arr(<<Num(0), Num(0)>>),
         grid_axes |-> Arr(<<Arr([i \in DOMAIN ys |-> Num(ys[i])]),
                             Arr([i \in DOMAIN xs |-> Num(xs[i])])>>)]
        @@ (IF hasUvs
            THEN [uvs |-> Arr([k \in 1..(2 * Len(ys) * Len(xs)) |-> Num(0)])]
            ELSE <<>>))

\* The record of a call made in the current state.
Did(op, args, ret, err) ==
    [op |-> op, node |-> 0, args |-> args, ret |-> ret, err |-> err,
     before |-> mesh, prevOp |-> lastOp.op,
     prevRet |-> IF lastOp = NoOp THEN FALSE ELSE lastOp.ret]

InitGrid ==
    /\ pc = "new"
    /\ mesh = NewMeshData
    /\ lastOp = NoOp
    /\ data = Undefined
    /\ restored = NoMesh
    /\ param = NoParam
    /\ node_offsets = NoOffsets
    /\ transforms = <<>>
    /\ matrices = <<>>
    /\ scene = Undefined
    /\ nodes = <<>>
    /\ puppet = NoPuppet
    /\ filebuffer = NoBuffer
    /\ textureLoads = <<>>
    /\ settleOrder = <<>>
    /\ builderCalls = 0

\* mesh = MeshData.createQuadMesh(size, uvBounds, cuts, origin)
CallCreateQuadMesh ==
    /\ pc = "new"
    /\ \E size \in QuadSizes, uvBounds \in QuadUvBounds, cuts \in QuadCuts,
          origin \in QuadOrigins :
          /\ mesh' = CreateQuadMesh(size, uvBounds, cuts, origin)
          /\ lastOp' = Did("createQuadMesh",
                           [size |-> size, uvBounds |-> uvBounds, cuts |-> cuts,
                            origin |-> origin],
                           FALSE, FALSE)
    /\ pc' = "mesh"
    /\ UNCHANGED <<scene, nodes, puppet, filebuffer, textureLoads,
                   settleOrder, builderCalls, data, restored,
                   param, node_offsets, transforms, matrices>>

\* mesh = MeshData.deserialize(json) for the JSON of a saved grid
LoadGridMesh ==
    /\ pc = "new"
    /\ \E ys \in SavedAxes, xs \in SavedAxes, hasUvs \in BOOLEAN :
          /\ mesh' = MeshDeserialize(GridJson(ys, xs, hasUvs)).m
          /\ lastOp' = Did("deserialize", [ys |-> ys, xs |-> xs, uvs |-> hasUvs],
                           FALSE, FALSE)
    /\ pc' = "mesh"
    /\ UNCHANGED <<scene, nodes, puppet, filebuffer, textureLoads,
                   settleOrder, builderCalls, data, restored,
                   param, node_offsets, transforms, matrices>>

\* The n + 1 coordinates that cut [-origin, size - origin] in n equal parts.
EvenAxis(size, n, origin) == [k \in 1..(n + 1) |-> (k - 1) * (size \div n) - origin]

\* mesh = MeshData.deserialize(json) for the JSON of a saved mesh whose axis
\* arrays hold the cuts.y + 1 row and cuts.x + 1 column coordinates of the
\* grid of size `size` and origin `origin`.
LoadQuadGrid ==
    /\ pc = "new"
    /\ \E size \in QuadSizes, cuts \in QuadCuts, origin \in QuadOrigins :
          /\ mesh' = MeshDeserialize(
                        GridJson(EvenAxis(size[2], ClampCuts(cuts[2]), origin[2]),
                                 EvenAxis(size[1], ClampCuts(cuts[1]), origin[1]),
                                 FALSE)).m
          /\ lastOp' = Did("deserialize",
                           [size |-> size, cuts |-> cuts, origin |-> origin],
                           FALSE, FALSE)
    /\ pc' = "mesh"
    /\ UNCHANGED <<scene, nodes, puppet, filebuffer, textureLoads,
                   settleOrder, builderCalls, data, restored,
                   param, node_offsets, transforms, matrices>>

\* mesh.vertices[i].add(d): one vertex is moved, the axes are left alone
MoveVertex ==
    /\ pc = "mesh"
    /\ \E i \in DOMAIN mesh.vertices, d \in Moves :
          /\ mesh' = [mesh EXCEPT !.vertices[i] =
                        <<mesh.vertices[i][1] + d[1], mesh.vertices[i][2] + d[2]>>]
          /\ lastOp' = Did("moveVertex", [i |-> i, d |-> d], FALSE, FALSE)
    /\ pc' = "edited"
    /\ UNCHANGED <<scene, nodes, puppet, filebuffer, textureLoads,
                   settleOrder, builderCalls, data, restored,
                   param, node_offsets, transforms, matrices>>

\* mesh.add(vertex, uv)
CallAdd ==
    /\ pc = "mesh"
    /\ mesh' = Add(mesh, <<7, 7>>, <<0, 0>>)
    /\ lastOp' = Did("add", <<7, 7>>, FALSE, FALSE)
    /\ pc' = "edited"
    /\ UNCHANGED <<scene, nodes, puppet, filebuffer, textureLoads,
                   settleOrder, builderCalls, data, restored,
                   param, node_offsets, transforms, matrices>>

\* The number of connect calls an index list is built from.
MaxConnects == 2

\* The vertex pairs handed to connect.
Connections == {<<0, 1>>, <<2, 0>>}

\* mesh.connect(first, second), on an index list of fewer than MaxConnects
\* pairs
CallConnect ==
    /\ pc \in {"mesh", "edited"}
    /\ Len(mesh.indices) < 2 * MaxConnects
    /\ \E c \in Connections :
          /\ mesh' = Connect(mesh, c[1], c[2])
          /\ lastOp' = Did("connect", c, FALSE, FALSE)
    /\ UNCHANGED <<pc, scene, nodes, puppet, filebuffer, textureLoads,
                   settleOrder, builderCalls, data, restored,
                   param, node_offsets, transforms, matrices>>

\* mesh.clearConnections()
CallClearConnections ==
    /\ pc \in {"mesh", "edited"}
    /\ mesh' = ClearConnections(mesh)
    /\ lastOp' = Did("clearConnections", <<>>, FALSE, FALSE)
    /\ UNCHANGED <<pc, scene, nodes, puppet, filebuffer, textureLoads,
                   settleOrder, builderCalls, data, restored,
                   param, node_offsets, transforms, matrices>>

\* mesh.isGrid()
CallIsGrid ==
    /\ pc \in {"mesh", "edited"}
    /\ lastOp' = Did("isGrid", <<>>, IsGrid(mesh), FALSE)
    /\ UNCHANGED <<pc, mesh, scene, nodes, puppet, filebuffer, textureLoads,
                   settleOrder, builderCalls, data, restored,
                   param, node_offsets, transforms, matrices>>

\* mesh.clearGridIsDirty()
CallClearGridIsDirty ==
    /\ pc \in {"mesh", "edited"}
    /\ \E r \in {ClearGridIsDirty(mesh)} :
          /\ mesh' = r.m
          /\ lastOp' = Did("clearGridIsDirty", <<>>, r.ret, FALSE)
    /\ UNCHANGED <<pc, scene, nodes, puppet, filebuffer, textureLoads,
                   settleOrder, builderCalls, data, restored,
                   param, node_offsets, transforms, matrices>>

\* mesh.regenerateGrid()
CallRegenerateGrid ==
    /\ pc \in {"mesh", "edited"}
    /\ \E r \in {RegenerateGrid(mesh)} :
          /\ mesh' = r.m
          /\ lastOp' = Did("regenerateGrid", <<>>, r.ret, FALSE)
    /\ UNCHANGED <<pc, scene, nodes, puppet, filebuffer, textureLoads,
                   settleOrder, builderCalls, data, restored,
                   param, node_offsets, transforms, matrices>>

\* mesh.fixWinding()
CallFixWinding ==
    /\ pc \in {"mesh", "edited"}
    /\ \E r \in {FixWinding(mesh)} :
          /\ mesh' = r.m
          /\ lastOp' = Did("fixWinding", <<>>, FALSE, r.err)
    /\ UNCHANGED <<pc, scene, nodes, puppet, filebuffer, textureLoads,
                   settleOrder, builderCalls, data, restored,
                   param, node_offsets, transforms, matrices>>

\* createQuadMesh and the calls on its result.
NextQuad ==
    \/ CallCreateQuadMesh
    \/ LoadQuadGrid
    \/ CallConnect
    \/ CallClearConnections
    \/ CallIsGrid
    \/ CallClearGridIsDirty
    \/ CallRegenerateGrid
    \/ CallFixWinding

SpecQuad == InitGrid /\ [][NextQuad]_vars

\* A saved grid, one edit of it, and the calls on it.
NextGrid ==
    \/ LoadGridMesh
    \/ MoveVertex
    \/ CallAdd
    \/ CallConnect
    \/ CallClearConnections
    \/ CallIsGrid
    \/ CallClearGridIsDirty
    \/ CallRegenerateGrid
    \/ CallFixWinding

SpecGrid == InitGrid /\ [][NextGrid]_vars

\* fixWinding on ready triangle meshes with valid indices.
MaxTris == 2

TriangleVertices ==
    { <<(<<0, 0>>), (<<1, 0>>), (<<0, 1>>)>>,
      <<(<<0, 0>>), (<<0, 2>>), (<<3, 1>>)>>,
      <<(<<1, 1>>), (<<1, 1>>), (<<2, 0>>)>> }

\* The ready meshes of at most max triangles.
ReadyMeshesUpTo(max) ==
    {MeshOf(vs, Undefined, ix, <<0, 0>>)
       : vs \in TriangleVertices,
         ix \in UNION {[1..(3 * n) -> {Num(0), Num(1), Num(2)}] : n \in 1..max}}

\* The meshes that are not ready: no index, or a number of indices that is
\* no multiple of 3; with and without a uv list.
UnreadyMeshesUpTo(max) ==
    {MeshOf(vs, uv, ix, <<0, 0>>)
       : vs \in TriangleVertices,
         uv \in {Undefined, Arr(<<(<<0, 0>>), (<<1, 0>>), (<<0, 1>>)>>)},
         ix \in UNION {[1..n -> {Num(0), Num(1), Num(2)}]
                         : n \in {k \in 0..(3 * max - 2) : k % 3 # 0 \/ k = 0}}}

\* Ready meshes of two triangles whose second triangle names a vertex the
\* mesh does not have.
DanglingMeshes ==
    {MeshOf(vs, Undefined, ix \o <<Num(0), Num(3), Num(1)>>, <<0, 0>>)
       : vs \in TriangleVertices, ix \in [1..3 -> {Num(0), Num(1), Num(2)}]}

InitWinding ==
    /\ pc = "mesh"
    /\ mesh \in ReadyMeshesUpTo(MaxTris) \cup UnreadyMeshesUpTo(MaxTris)
                   \cup DanglingMeshes
    /\ lastOp = NoOp
    /\ data = Undefined
    /\ restored = NoMesh
    /\ param = NoParam
    /\ node_offsets = NoOffsets
    /\ transforms = <<>>
    /\ matrices = <<>>
    /\ scene = Undefined
    /\ nodes = <<>>
    /\ puppet = NoPuppet
    /\ filebuffer = NoBuffer
    /\ textureLoads = <<>>
    /\ settleOrder = <<>>
    /\ builderCalls = 0

NextWinding == CallFixWinding

SpecWinding == InitWinding /\ [][NextWinding]_vars

-----------------------------------------------------------------------------
(* Properties of the grid meshes.                                           *)

\* The cut counts createQuadMesh works with for the cuts it was given.
RaisedCuts(cuts) ==
    <<IF cuts[1] < 2 THEN 2 ELSE cuts[1], IF cuts[2] < 2 THEN 2 ELSE cuts[2]>>

\* C14: the mesh returned by createQuadMesh has (cuts.x+1)*(cuts.y+1)
\* vertices laid out row-major over the size and 6*cuts.x*cuts.y index
\* entries, cuts below 2 counting as 2.
C14_QuadMeshCounts ==
    lastOp.op = "createQuadMesh" =>
        LET c == RaisedCuts(lastOp.args.cuts)
            size == lastOp.args.size
            origin == lastOp.args.origin
        IN  /\ Len(mesh.vertices) = (c[1] + 1) * (c[2] + 1)
            /\ Len(mesh.indices) = 6 * c[1] * c[2]
            /\ \A x \in 0..c[1], y \in 0..c[2] :
                  mesh.vertices[y * (c[1] + 1) + x + 1]
                      = <<x * (size[1] \div c[1]) - origin[1],
                          y * (size[2] \div c[2]) - origin[2]>>

\* C14 witness: createQuadMesh with cuts (2,2) returned 9 vertices and 24
\* index entries.
C14_Witness ==
    /\ lastOp.op = "createQuadMesh"
    /\ lastOp.args.cuts = <<2, 2>>
    /\ Len(mesh.vertices) = 9
    /\ Len(mesh.indices) = 24

\* The vertex numbers of the four corners of cell (x, y) in a row-major
\* grid with w vertices per row.
CellCorners(x, y, w) ==
    {y * w + x, y * w + x + 1, (y + 1) * w + x, (y + 1) * w + x + 1}

\* The index list is made of valid triangles over a grid with w vertices
\* per row: six entries per cell, each a corner of that cell.
ValidGridIndices(m, w) ==
    /\ Len(m.indices) % 3 = 0
    /\ \A e \in DOMAIN m.indices :
          /\ m.indices[e].k = "number"
          /\ m.indices[e].v \in 0..(Len(m.vertices) - 1)
          /\ m.indices[e].v \in
                CellCorners(((e - 1) \div 6) % (w - 1), ((e - 1) \div 6) \div (w - 1), w)

\* C15 (as claimed): after createQuadMesh and after every successful
\* regenerateGrid the index list has a length divisible by 3, every entry
\* is the number of a vertex, and the six entries of a cell are corners of
\* that cell.
C15_GridIndicesAreValid ==
    /\ lastOp.op = "createQuadMesh"
          => ValidGridIndices(mesh, RaisedCuts(lastOp.args.cuts)[1] + 1)
    /\ (lastOp.op = "regenerateGrid" /\ lastOp.ret)
          => ValidGridIndices(mesh, Len(mesh.gridAxes.v[2].v))

\* C16 (as claimed): fixWinding() called on the mesh createQuadMesh
\* returned completes and leaves the index list as it was.
C16_FixWindingKeepsQuadMesh ==
    (lastOp.op = "fixWinding" /\ lastOp.prevOp = "createQuadMesh")
        => /\ ~lastOp.err
           /\ mesh.indices = lastOp.before.indices

\* C17: after fixWinding() on a ready mesh whose indices are all vertex
\* numbers, the call has completed and every triangle (A,B,C) of the index
\* list has (B.x-A.x)*(C.y-A.y) - (B.y-A.y)*(C.x-A.x) >= 0.
C17_NoClockwiseTriangleAfterFixWinding ==
    (/\ lastOp.op = "fixWinding"
     /\ Len(lastOp.before.indices) > 0
     /\ Len(lastOp.before.indices) % 3 = 0
     /\ \A e \in DOMAIN lastOp.before.indices :
           /\ lastOp.before.indices[e].k = "number"
           /\ lastOp.before.indices[e].v \in 0..(Len(lastOp.before.vertices) - 1))
        => /\ ~lastOp.err
           /\ \A t \in 0..((Len(mesh.indices) \div 3) - 1) :
                 LET A == mesh.vertices[mesh.indices[3 * t + 1].v + 1]
                     B == mesh.vertices[mesh.indices[3 * t + 2].v + 1]
                     C == mesh.vertices[mesh.indices[3 * t + 3].v + 1]
                 IN  (B[1] - A[1]) * (C[2] - A[2])
                         - (B[2] - A[2]) * (C[1] - A[1]) >= 0

\* C17 witness: fixWinding() swapped the second triangle of a two-triangle
\* mesh and left the first, degenerate or counter-clockwise, alone.
C17_Witness ==
    /\ lastOp.op = "fixWinding"
    /\ Len(mesh.indices) = 6
    /\ mesh.vertices = <<(<<0, 0>>), (<<1, 0>>), (<<0, 1>>)>>
    /\ lastOp.before.indices = <<Num(0), Num(1), Num(2), Num(0), Num(2), Num(1)>>
    /\ mesh.indices = <<Num(0), Num(1), Num(2), Num(0), Num(1), Num(2)>>

\* C18 (as claimed): clearGridIsDirty() called right after createQuadMesh
\* or right after a successful regenerateGrid returns false and leaves the
\* axis arrays as they were.
C18_FreshGridIsNotDirty ==
    (/\ lastOp.op = "clearGridIsDirty"
     /\ \/ lastOp.prevOp = "createQuadMesh"
        \/ lastOp.prevOp = "regenerateGrid" /\ lastOp.prevRet)
        => /\ lastOp.ret = FALSE
           /\ mesh.gridAxes = lastOp.before.gridAxes

\* Both axis arrays of m exist and are empty.
AxesEmptied(m) == m.gridAxes = Arr(<<Arr(<<>>), Arr(<<>>)>>)

\* C19: on a grid mesh with non-empty axes of which one vertex was moved
\* or to which a vertex was added, clearGridIsDirty() returns true and
\* empties both axis arrays; with the axes emptied isGrid() returns false
\* and regenerateGrid() returns false and leaves the mesh as it was.
C19_EditedGridIsCleared ==
    /\ (/\ lastOp.op = "clearGridIsDirty"
        /\ lastOp.prevOp \in {"moveVertex", "add"}
        /\ lastOp.before.gridAxes # Undefined
        /\ Len(lastOp.before.gridAxes.v[1].v) > 0
        /\ Len(lastOp.before.gridAxes.v[2].v) > 0)
           => /\ lastOp.ret = TRUE
              /\ AxesEmptied(mesh)
              /\ mesh.vertices = lastOp.before.vertices
    /\ (lastOp.op = "isGrid" /\ AxesEmptied(mesh)) => lastOp.ret = FALSE
    /\ (lastOp.op = "regenerateGrid" /\ AxesEmptied(lastOp.before))
           => /\ lastOp.ret = FALSE
              /\ mesh = lastOp.before

\* C19 witness: a 3x3 grid had one vertex moved, clearGridIsDirty()
\* emptied its axes, and regenerateGrid() then returned false.
C19_Witness ==
    /\ pc = "edited"
    /\ lastOp.op = "regenerateGrid"
    /\ lastOp.prevOp = "clearGridIsDirty"
    /\ lastOp.prevRet = TRUE
    /\ lastOp.ret = FALSE
    /\ Len(mesh.vertices) = 9
    /\ AxesEmptied(mesh)

\* C20 (as claimed): the mesh returned by createQuadMesh has exactly two
\* grid axes, of cuts.y+1 and cuts.x+1 coordinates, whose cross product in
\* row-major order is the vertex list.
C20_QuadMeshKeepsItsAxes ==
    lastOp.op = "createQuadMesh" =>
        LET c == RaisedCuts(lastOp.args.cuts)
        IN  /\ Len(mesh.gridAxes.v) = 2
            /\ Len(mesh.gridAxes.v[1].v) = c[2] + 1
            /\ Len(mesh.gridAxes.v[2].v) = c[1] + 1
            /\ AxesCross(Axis(mesh, 1), Axis(mesh, 2)) = mesh.vertices

\* C21 (as claimed): the mesh returned by createQuadMesh has a uv list with
\* one uv per vertex, the uv of grid point (x, y) being
\* (uvBounds.x + x * uvBounds.z / cuts.x, uvBounds.y + y * uvBounds.w / cuts.y).
C21_QuadMeshCarriesUvs ==
    lastOp.op = "createQuadMesh" =>
        LET c == RaisedCuts(lastOp.args.cuts)
            b == lastOp.args.uvBounds
        IN  /\ mesh.uvs.k = "array"
            /\ Len(mesh.uvs.v) = Len(mesh.vertices)
            /\ \A x \in 0..c[1], y \in 0..c[2] :
                  mesh.uvs.v[y * (c[1] + 1) + x + 1]
                      = <<b[1] + x * (b[3] \div c[1]), b[2] + y * (b[4] \div c[2])>>

-----------------------------------------------------------------------------
(* Param (lib/param.ts).  Parameter values and axis points are counted in   *)
(* quarters, so that 0.25 is 1 and the axis [0, 1] is <<0, 4>>; only their   *)
(* order is read by getAxisPointIndexes.                                     *)

MaxAxisPoints == 3

\* new Matrix4(): the identity, as rows
Identity4 ==
    <<(<<1, 0, 0, 0>>), (<<0, 1, 0, 0>>), (<<0, 0, 1, 0>>), (<<0, 0, 0, 1>>)>>

\* new PartOffsets()
NewPartOffsets == [vert_offset |-> 0, vert_len |-> 0, trans_offset |-> Identity4]

\* A Binding on node `node` with the TransformTX control values tx.
BindingOn(node, mode, tx) ==
    [node |-> node, is_set |-> <<>>, interpolate_mode |-> mode,
     values |-> [ZSort |-> <<>>, TransformTX |-> tx, TransformTY |-> <<>>,
                 TransformSX |-> <<>>, TransformSY |-> <<>>, TransformRX |-> <<>>,
                 TransformRY |-> <<>>, TransformRZ |-> <<>>, Deform |-> <<>>]]

\* new Param() with the given x axis points and bindings; the range of the
\* parameter is [0, 1] on x.
ParamOf(xs, bindings) ==
    [uuid |-> 1, name |-> "p", is_vec2 |-> FALSE, min |-> <<0, 0>>,
     max |-> <<4, 0>>, defaults |-> <<0, 0>>,
     axis_points |-> [x |-> xs, y |-> <<>>], bindings |-> bindings]

\* Param.apply(val, node_offsets, deform_buf): its body is
\* throw new Error("Not implemented."), whatever the arguments.
\* [err, node_offsets]
Apply(p, val, offsets, deform_buf) == [err |-> TRUE, node_offsets |-> offsets]

\* axisPoints.findIndex((point) => point >= value): the 0-based position of
\* the first such point, -1 when there is none.
FindIndex(axisPoints, value) ==
    IF \E i \in DOMAIN axisPoints : axisPoints[i] >= value
    THEN (CHOOSE i \in DOMAIN axisPoints :
             /\ axisPoints[i] >= value
             /\ \A j \in 1..(i - 1) : ~(axisPoints[j] >= value)) - 1
    ELSE -1

\* getAxisPointIndexes without its `index === 0` case.
GetAxisPointIndexesNoFirst(value, axisPoints) ==
    LET index == FindIndex(axisPoints, value)
    IN  IF index = -1 THEN <<Len(axisPoints) - 2, Len(axisPoints) - 1>>
        ELSE <<index - 1, index>>

\* Param.getAxisPointIndexes(value, axisPoints)
GetAxisPointIndexes(value, axisPoints) ==
    LET index == FindIndex(axisPoints, value)
    IN  IF index = -1 THEN <<Len(axisPoints) - 2, Len(axisPoints) - 1>>
        ELSE IF index = 0 THEN <<index, index + 1>>
        ELSE <<index - 1, index>>

-----------------------------------------------------------------------------
(* Transform.multiply, Transform.update and Transform.matrix                 *)
(* (lib/math/transform.ts) with the Matrix4 objects they share.  A          *)
(* Transform is [rot, scale, trans, trs], trs being the index in `matrices` *)
(* of the Matrix4 object the private field refers to; a Matrix4 is its four *)
(* rows.  Matrix4.multiply(m) stores this * m in `this` and returns `this`.  *)

MaxCalls == 2

\* a * b of two Matrix4
MultiplyMatrices(a, b) ==
    [i \in 1..4 |-> [j \in 1..4 |->
        a[i][1] * b[1][j] + a[i][2] * b[2][j] + a[i][3] * b[3][j] + a[i][4] * b[4][j]]]

\* new Matrix4().makeScale(x, y, 1)
MakeScale(x, y) ==
    <<(<<x, 0, 0, 0>>), (<<0, y, 0, 0>>), (<<0, 0, 1, 0>>), (<<0, 0, 0, 1>>)>>

\* The matrix update() stores: translate, rotation and scale are the one
\* object mat4, which holds makeScale(scale.x, scale.y, 1) after the third
\* make call, so scale.multiply(rotation).multiply(translate) squares it
\* twice.
UpdatedTrs(t) ==
    MultiplyMatrices(
        MultiplyMatrices(MakeScale(t.scale[1], t.scale[2]),
                         MakeScale(t.scale[1], t.scale[2])),
        MultiplyMatrices(MakeScale(t.scale[1], t.scale[2]),
                         MakeScale(t.scale[1], t.scale[2])))

\* transforms[i].update(): [transforms, matrices].  The result is in mat4, a
\* new Matrix4, which becomes the trs of the transform.
TransformUpdate(ts, ms, i) ==
    [transforms |-> [ts EXCEPT ![i].trs = Len(ms) + 1],
     matrices |-> Append(ms, UpdatedTrs(ts[i]))]

\* transforms[i].matrix(): the Matrix4 object of the transform
Matrix(ts, i) == ts[i].trs

\* new Vector3().setFromMatrixScale(m): the lengths of the first three
\* columns.  The matrices of the model are diagonal, so a length is the
\* absolute value of the diagonal entry.
ColumnLength(m, c) == IF m[c][c] < 0 THEN -(m[c][c]) ELSE m[c][c]

\* The Transform multiply returns when strs is the object number s:
\* translation from the fourth column, rot (0, 0, 0) turned by the rotation
\* of strs, scale from the column lengths, and trs = strs.
Extracted(ms, s) ==
    [rot |-> <<0, 0, 0>>,
     scale |-> <<ColumnLength(ms[s], 1), ColumnLength(ms[s], 2)>>,
     trans |-> <<ms[s][1][4], ms[s][2][4], ms[s][3][4]>>,
     trs |-> s]

\* transforms[i].multiply(transforms[j]): [transforms, matrices], the
\* returned Transform being the last of transforms.  new Transform() makes
\* the identity Matrix4 number Len(ms) + 1; other.trs.multiply(this.trs)
\* stores the product in the matrix of `other` and returns that object.
Multiply(ts, ms, i, j) ==
    [transforms |-> Append(ts, Extracted([ms EXCEPT ![ts[j].trs] =
                                             MultiplyMatrices(ms[ts[j].trs],
                                                              ms[ts[i].trs])],
                                         ts[j].trs)),
     matrices |-> Append([ms EXCEPT ![ts[j].trs] =
                             MultiplyMatrices(ms[ts[j].trs], ms[ts[i].trs])],
                         Identity4)]

-----------------------------------------------------------------------------
(* Two Transform objects with given rot, scale and trans, and calls of      *)
(* update and multiply on them and on the transforms multiply returned.     *)

\* rot, scale and trans of the operands; no scale component is 0.
TransformInputs ==
    { [rot |-> <<0, 0, 0>>, scale |-> <<1, 1>>, trans |-> <<0, 0, 0>>],
      [rot |-> <<0, 0, 1>>, scale |-> <<2, 1>>, trans |-> <<5, 0, 0>>],
      [rot |-> <<1, 0, 2>>, scale |-> <<-1, 3>>, trans |-> <<1, 2, 3>>] }

InitTransform ==
    /\ pc = "transforms"
    /\ \E a \in TransformInputs, b \in TransformInputs :
          transforms = <<a @@ [trs |-> 1], b @@ [trs |-> 2]>>
    /\ matrices = <<Identity4, Identity4>>
    /\ lastOp = NoOp
    /\ scene = Undefined
    /\ nodes = <<>>
    /\ puppet = NoPuppet
    /\ filebuffer = NoBuffer
    /\ textureLoads = <<>>
    /\ settleOrder = <<>>
    /\ builderCalls = 0
    /\ mesh = NewMeshData
    /\ data = Undefined
    /\ restored = NoMesh
    /\ param = NoParam
    /\ node_offsets = NoOffsets

\* transforms[i].update()
CallTransformUpdate ==
    /\ pc = "transforms"
    /\ Len(matrices) < 2 + MaxCalls
    /\ \E i \in DOMAIN transforms :
          \E r \in {TransformUpdate(transforms, matrices, i)} :
             /\ transforms' = r.transforms
             /\ matrices' = r.matrices
             /\ lastOp' = [op |-> "update", node |-> 0, a |-> i]
    /\ UNCHANGED <<pc, scene, nodes, puppet, filebuffer, textureLoads,
                   settleOrder, builderCalls, mesh, data, restored,
                   param, node_offsets>>

\* transforms[i].multiply(transforms[j]); lastOp keeps the operands, the
\* returned transform and the objects as they were before the call.
CallMultiply ==
    /\ pc = "transforms"
    /\ Len(matrices) < 2 + MaxCalls
    /\ \E i \in DOMAIN transforms, j \in DOMAIN transforms :
          \E r \in {Multiply(transforms, matrices, i, j)} :
             /\ transforms' = r.transforms
             /\ matrices' = r.matrices
             /\ lastOp' = [op |-> "multiply", node |-> 0, a |-> i, b |-> j,
                           ret |-> Len(r.transforms),
                           before |-> [transforms |-> transforms,
                                       matrices |-> matrices]]
    /\ UNCHANGED <<pc, scene, nodes, puppet, filebuffer, textureLoads,
                   settleOrder, builderCalls, mesh, data, restored,
                   param, node_offsets>>

NextTransform ==
    \/ CallTransformUpdate
    \/ CallMultiply

SpecTransform == InitTransform /\ [][NextTransform]_vars

-----------------------------------------------------------------------------
(* The Param operations as a state machine: a Param with strictly           *)
(* increasing axis points and at most one binding, a node_offsets map with   *)
(* or without the bound node, and calls with values below, inside and above  *)
(* the axis.                                                                 *)

AxisCoords == 0..4

\* The strictly increasing axis point arrays of 2 to max points.
AxisPointsUpTo(max) ==
    {s \in UNION {[1..n -> AxisCoords] : n \in 2..max} :
        \A i \in 1..(Len(s) - 1) : s[i] < s[i + 1]}

\* The binding lists: none, and one binding of node 1 or of node 9 with the
\* control values [0, 10].
BindingLists ==
    {<<>>} \cup
    {<<BindingOn(node, mode, <<(<<0, 10>>)>>)>> :
        node \in {1, 9}, mode \in {"linear", "smoothstep"}}

\* node_offsets: empty, or holding node 1.  Node 9 is in neither.
OffsetMaps == {<<>>, <<[key |-> 1, value |-> NewPartOffsets]>>}

\* The values passed to apply and getAxisPointIndexes, in quarters.
ParamValues == (-1)..5

InitParam ==
    /\ pc = "param"
    /\ param \in {ParamOf(xs, b) : xs \in AxisPointsUpTo(MaxAxisPoints),
                                  b \in BindingLists}
    /\ node_offsets \in OffsetMaps
    /\ scene = Undefined
    /\ nodes = <<>>
    /\ puppet = NoPuppet
    /\ lastOp = NoOp
    /\ filebuffer = NoBuffer
    /\ textureLoads = <<>>
    /\ settleOrder = <<>>
    /\ builderCalls = 0
    /\ mesh = NewMeshData
    /\ data = Undefined
    /\ restored = NoMesh
    /\ transforms = <<>>
    /\ matrices = <<>>

\* param.apply(new Vector2(val, 0), node_offsets, [])
CallApply ==
    /\ pc = "param"
    /\ \E val \in ParamValues :
          \E r \in {Apply(param, <<val, 0>>, node_offsets, <<>>)} :
             /\ node_offsets' = r.node_offsets
             /\ lastOp' = [op |-> "apply", node |-> 0, args |-> <<val, 0>>,
                           err |-> r.err, before |-> node_offsets]
    /\ UNCHANGED <<pc, scene, nodes, puppet, filebuffer, textureLoads,
                   settleOrder, builderCalls, mesh, data, restored,
                   param, transforms, matrices>>

\* param.getAxisPointIndexes(value, param.axis_points.x)
CallGetAxisPointIndexes ==
    /\ pc = "param"
    /\ \E value \in ParamValues :
          lastOp' = [op |-> "getAxisPointIndexes", node |-> 0, args |-> value,
                     ret |-> GetAxisPointIndexes(value, param.axis_points.x),
                     err |-> FALSE]
    /\ UNCHANGED <<pc, scene, nodes, puppet, filebuffer, textureLoads,
                   settleOrder, builderCalls, mesh, data, restored,
                   param, node_offsets, transforms, matrices>>

NextParam ==
    \/ CallApply
    \/ CallGetAxisPointIndexes

SpecParam == InitParam /\ [][NextParam]_vars

-----------------------------------------------------------------------------
(* Properties of the mesh uvs and of Param.                                 *)

\* The quotient q equals n / d, for nonzero denominators.
SameQuotient(q, n, d) == q.den # 0 /\ d # 0 /\ q.num * d = n * q.den

\* The quotient q, of positive denominator, lies in [0, 1].
InUnitInterval(q) == q.den > 0 /\ 0 <= q.num /\ q.num <= q.den

\* C22 (as claimed): after a successful regenerateGrid() on a mesh that has
\* a uv list, the uv of the vertex at (x, y) is
\* ((x - minX) / (maxX - minX), (y - minY) / (maxY - minY)) and both of its
\* components lie in [0, 1].
C22_RegeneratedUvsNormalizedPerAxis ==
    (lastOp.op = "regenerateGrid" /\ lastOp.ret /\ Truthy(mesh.uvs)) =>
        LET ys == Axis(mesh, 1)
            xs == Axis(mesh, 2)
        IN  /\ Len(mesh.uvs.v) = Len(mesh.vertices)
            /\ \A k \in DOMAIN mesh.vertices :
                  /\ SameQuotient(mesh.uvs.v[k][1], mesh.vertices[k][1] - xs[1],
                                  xs[Len(xs)] - xs[1])
                  /\ SameQuotient(mesh.uvs.v[k][2], mesh.vertices[k][2] - ys[1],
                                  ys[Len(ys)] - ys[1])
                  /\ InUnitInterval(mesh.uvs.v[k][1])
                  /\ InUnitInterval(mesh.uvs.v[k][2])

\* C23 (as claimed): Param.apply returns normally, without throwing, for
\* every value in or out of range and every binding list, also when a
\* binding's node is absent from node_offsets.
C23_ApplyNeverFails ==
    lastOp.op = "apply" => ~lastOp.err

\* C24: for strictly increasing axisPoints of length >= 2 and any value,
\* getAxisPointIndexes returns a pair (i, i+1) with 0 <= i and
\* i+1 < axisPoints.length; the pair brackets a value inside the axis, it
\* is (0, 1) for a value below the first point and (length-2, length-1)
\* for a value above the last.
C24_AxisPointIndexesBracketValue ==
    lastOp.op = "getAxisPointIndexes" =>
        LET a == param.axis_points.x
            v == lastOp.args
            i == lastOp.ret[1]
        IN  /\ lastOp.ret[2] = i + 1
            /\ 0 <= i
            /\ i + 1 < Len(a)
            /\ (a[1] <= v /\ v <= a[Len(a)]) => (a[i + 1] <= v /\ v <= a[i + 2])
            /\ v < a[1] => lastOp.ret = <<0, 1>>
            /\ v > a[Len(a)] => lastOp.ret = <<Len(a) - 2, Len(a) - 1>>

\* C24 witness: on the axis [0, 0.5, 1] the value 0.75 got the pair (1, 2),
\* and so did a value above the axis.
C24_Witness ==
    /\ lastOp.op = "getAxisPointIndexes"
    /\ param.axis_points.x = <<0, 2, 4>>
    /\ lastOp.args \in {3, 5}
    /\ lastOp.ret = <<1, 2>>

\* C25 (as claimed): applying a 1-DOF Param with axisPoints [0, 1] and one
\* binding of node 1 with control values [0, 10] at a value v inside the
\* axis adds 10 * t to the TransformTX channel of node 1 in Linear mode and
\* 10 * (3 t^2 - 2 t^3) in Smoothstep mode, where t = v / 4 with v counted in
\* quarters: 64 times the contribution is 160 * v, and 10 * (12 v^2 - 2 v^3).
C25_ApplyInterpolatesBinding ==
    (/\ lastOp.op = "apply"
     /\ param.axis_points.x = <<0, 4>>
     /\ Len(param.bindings) = 1
     /\ lastOp.before # <<>>
     /\ lastOp.args[1] \in 0..4
     /\ param.bindings[1].node = 1) =>
        LET v == lastOp.args[1]
            tx(offsets) == offsets[1].value.trans_offset[1][4]
            added == tx(node_offsets) - tx(lastOp.before)
        IN  /\ ~lastOp.err
            /\ param.bindings[1].interpolate_mode = "linear"
                  => 64 * added = 160 * v
            /\ param.bindings[1].interpolate_mode = "smoothstep"
                  => 64 * added = 10 * (12 * v * v - 2 * v * v * v)

-----------------------------------------------------------------------------
(* Properties of the z-order and of the renderer's traversal.               *)

RECURSIVE AccumulatedZsort(_, _)
RECURSIVE BelowComposite(_, _)

\* The sum of the zsort values on the path from the root to node n.
AccumulatedZsort(heap, n) ==
    IF heap[n].parent = 0 THEN heap[n].zsort
    ELSE AccumulatedZsort(heap, heap[n].parent) + heap[n].zsort

\* Node n has a Composite-typed proper ancestor.
BelowComposite(heap, n) ==
    /\ heap[n].parent # 0
    /\ \/ heap[heap[n].parent].type = Str("Composite")
       \/ BelowComposite(heap, heap[n].parent)

\* C26 (as claimed): zsortedRoot() returns the uuid of the root and of every
\* descendant that is not below a Composite-typed node, each exactly once,
\* ordered by non-increasing accumulated zsort.
C26_ZsortedRootListsNodesByZsort ==
    lastOp.op = "zsortedRoot" =>
        LET ret == lastOp.ret
            listed == {n \in DOMAIN nodes : ~BelowComposite(nodes, n)}
            nodeOf(u) == CHOOSE n \in DOMAIN nodes : nodes[n].uuid = u
        IN  /\ Len(ret) = Cardinality(listed)
            /\ {ret[i] : i \in DOMAIN ret} = {nodes[n].uuid : n \in listed}
            /\ \A i \in DOMAIN ret : \A j \in DOMAIN ret :
                  i < j => AccumulatedZsort(nodes, nodeOf(ret[i]))
                              >= AccumulatedZsort(nodes, nodeOf(ret[j]))

\* C28 (as claimed): the createNode traversal started by renderPuppet calls
\* update() on every node of the tree exactly once and on each parent
\* before any of its children, and when it ends every node's actualTransform
\* and actualZsort are the composition of its parent's current world values
\* with its own local values.
C28_RenderUpdatesWholeTreeInPreorder ==
    lastOp.op = "renderPuppet" =>
        /\ ~lastOp.err
        /\ Len(lastOp.updated) = Len(nodes)
        /\ \A n \in DOMAIN nodes : \E i \in DOMAIN lastOp.updated :
              lastOp.updated[i] = n
        /\ \A i \in DOMAIN lastOp.updated : \A j \in DOMAIN lastOp.updated :
              nodes[lastOp.updated[j]].parent = lastOp.updated[i] => i < j
        /\ \A n \in DOMAIN nodes : ComposedFromParent(n)

\* C27 (as claimed): for a mesh whose axis arrays hold the cuts.y + 1 row
\* coordinates and cuts.x + 1 column coordinates of a createQuadMesh grid,
\* regenerateGrid() gives the vertices, in the same order, and the index
\* list of createQuadMesh, and chooses the same diagonal as createQuadMesh
\* in every cell.
C27_RegenerateGridAgreesWithCreateQuadMesh ==
    (lastOp.op = "regenerateGrid" /\ lastOp.prevOp = "deserialize" /\ lastOp.ret) =>
        LET ys == Axis(mesh, 1)
            xs == Axis(mesh, 2)
            cx == Len(xs) - 1
            cy == Len(ys) - 1
        IN  /\ \E uvBounds \in QuadUvBounds :
                  /\ mesh.vertices
                        = CreateQuadMesh(<<xs[cx + 1] - xs[1], ys[cy + 1] - ys[1]>>,
                                         uvBounds, <<cx, cy>>, <<-xs[1], -ys[1]>>).vertices
                  /\ mesh.indices
                        = CreateQuadMesh(<<xs[cx + 1] - xs[1], ys[cy + 1] - ys[1]>>,
                                         uvBounds, <<cx, cy>>, <<-xs[1], -ys[1]>>).indices
            /\ \A x \in 0..(cx - 1), y \in 0..(cy - 1) :
                  RegenDiag(xs[x + 1], ys[y + 1], ys, xs) = QuadDiag(x, y, cx, cy)

\* C29: fixWinding() changes nothing but the order of the second and third
\* index inside single triangles: vertices, uvs, origin and the index count
\* stay, each triangle keeps its first index and its three indices; a mesh
\* with no index or with an index count that is no multiple of 3 is left
\* as it was; and a second call changes nothing.
C29_FixWindingOnlySwapsInsideTriangles ==
    lastOp.op = "fixWinding" =>
        LET b == lastOp.before
        IN  /\ mesh.vertices = b.vertices
            /\ mesh.uvs = b.uvs
            /\ mesh.origin = b.origin
            /\ Len(mesh.indices) = Len(b.indices)
            /\ (Len(b.indices) = 0 \/ Len(b.indices) % 3 # 0) => mesh = b
            /\ \A t \in 0..((Len(b.indices) \div 3) - 1) :
                  /\ mesh.indices[3 * t + 1] = b.indices[3 * t + 1]
                  /\ \/ /\ mesh.indices[3 * t + 2] = b.indices[3 * t + 2]
                        /\ mesh.indices[3 * t + 3] = b.indices[3 * t + 3]
                     \/ /\ mesh.indices[3 * t + 2] = b.indices[3 * t + 3]
                        /\ mesh.indices[3 * t + 3] = b.indices[3 * t + 2]
            /\ lastOp.prevOp = "fixWinding" => mesh = b

\* C29 witness: fixWinding() swapped the second and third index of the
\* first triangle of a two-triangle mesh and kept the second triangle.
C29_Witness ==
    /\ lastOp.op = "fixWinding"
    /\ mesh.vertices = <<(<<0, 0>>), (<<1, 0>>), (<<0, 1>>)>>
    /\ lastOp.before.indices = <<Num(1), Num(0), Num(2), Num(0), Num(1), Num(2)>>
    /\ mesh.indices = <<Num(1), Num(2), Num(0), Num(0), Num(1), Num(2)>>

\* C30 (as claimed): a.multiply(b) returns a new Transform and leaves both
\* operands unchanged: after the call a.matrix() and b.matrix() hold the
\* values they held before it, and the matrix of the returned transform is
\* not the same object as the matrix of either operand.
C30_MultiplyLeavesOperandsUnchanged ==
    lastOp.op = "multiply" =>
        LET a == lastOp.a
            b == lastOp.b
            was == lastOp.before
        IN  /\ lastOp.ret \notin DOMAIN was.transforms
            /\ transforms[a] = was.transforms[a]
            /\ transforms[b] = was.transforms[b]
            /\ matrices[Matrix(transforms, a)]
                  = was.matrices[Matrix(was.transforms, a)]
            /\ matrices[Matrix(transforms, b)]
                  = was.matrices[Matrix(was.transforms, b)]
            /\ Matrix(transforms, lastOp.ret) # Matrix(transforms, a)
            /\ Matrix(transforms, lastOp.ret) # Matrix(transforms, b)

====
